---------------------------- MODULE Spec2Model ----------------------------
(***************************************************************************)
(* The nine MCP servers of MasterStack (src/mcp-servers/*/server.py).      *)
(* Every server registers two handlers on an mcp Server object:            *)
(* list_tools, returning the tool descriptions, and call_tool, one         *)
(* try/except around an if/elif chain over the tool name that reads the    *)
(* arguments, calls one method of a module-level backend client and        *)
(* formats the answer as a list holding one TextContent.                   *)
(*                                                                         *)
(* A tool name is a sequence of string tokens whose concatenation is the   *)
(* Python string; the suffix "_get_queue" is a token of its own so that    *)
(* name.endswith / name.replace of the media-management server are         *)
(* computed.  A JSON value is a record [type, repr].  A text is a string.  *)
(***************************************************************************)
EXTENDS Integers, Sequences, FiniteSets, TLC

VARIABLES
    server,             \* which server.py this process runs
    arr_services,       \* media-management: keys of the arr_services dict, in insertion order
    minecraft_servers,  \* gaming: keys of minecraft.servers
    session,            \* "open" while app.run serves the stream, "closed" after end of stream
    pc,                 \* "reading": waiting for a request; "writing": a result is to be sent
    last,               \* the tool call being answered: request, handler outcome, result
    call_count,         \* number of backend client method invocations so far
    listings,           \* the results of the list_tools calls made so far
    called_between,     \* a tool call was served between the first and the second list_tools call
    \* the network server's ASGI application (create_app)
    streams,            \* session ids whose GET /sse request is being served (handle_sse is in app.run)
    closed_streams,     \* session ids whose GET /sse request has ended
    http_last,          \* the HTTP exchange served last: request, response
    http_count,         \* number of HTTP requests served so far
    handler_runs,       \* number of call_tool runs started on behalf of an HTTP request
    \* the network server's tool calls on the shared client (unifi = UnifiClient())
    cookies,            \* unifi.cookies
    tasks,              \* the call_tool coroutines: where each is suspended, what it holds
    calls_started,      \* number of call_tool coroutines started so far
    \* one process on the stdio transport, from its start to its exit
    proc,               \* "loading" (module-level code runs), "serving" (app.run), "exited"
    exit_code,          \* the exit status once exited
    config,             \* the environment variables that are set, of those read without a default
    loop,               \* 0 when the event loop's thread is free, else the job whose blocking call holds it
    jobs,               \* the requests of the session: where each is, what its backend does
    arrivals,           \* number of requests received so far
    \* a run of fix_servers.py over the tree mcp-servers/
    files,              \* per server directory: its server.py and its requirements.txt
    cursor,             \* 0 before the run, then the index in SERVERS of the next server
    output,             \* what the script has printed
    failures,           \* number of file operations that have failed
    done,               \* the script has printed its last line
    \* the state of single backend clients
    environ,            \* media-management: the *_URL and *_API_KEY variables set to a non-empty value
    qbit,               \* downloads: qbit._client and the Client constructions made so far
    rcon,               \* gaming: the RCON connections opened, open now, and the commands sent
    ha                  \* homeautomation: a list_entities call, its backend answer and its text

\* The variables of one server process serving tool calls.
tool_vars == <<server, arr_services, minecraft_servers, session, pc, last,
               call_count, listings, called_between>>

\* The variables of the ASGI application.
http_vars == <<streams, closed_streams, http_last, http_count, handler_runs>>

\* The variables of the network server's concurrent tool calls.
unifi_vars == <<cookies, tasks, calls_started>>

\* The variables of a process on the stdio transport (with server, arr_services
\* and minecraft_servers, which it never changes).
stdio_vars == <<proc, exit_code, config, loop, jobs, arrivals>>

\* The variables of a run of fix_servers.py.
fix_vars == <<files, cursor, output, failures, done>>

\* The variables of the backend clients looked at one by one.
backend_vars == <<environ, qbit, rcon, ha>>

vars == <<tool_vars, http_vars, unifi_vars, stdio_vars, fix_vars, backend_vars>>

other_than_tool == <<http_vars, unifi_vars, stdio_vars, fix_vars, backend_vars>>
other_than_http == <<tool_vars, unifi_vars, stdio_vars, fix_vars, backend_vars>>
other_than_unifi == <<tool_vars, http_vars, stdio_vars, fix_vars, backend_vars>>
other_than_stdio == <<tool_vars, http_vars, unifi_vars, fix_vars, backend_vars>>
other_than_fix == <<tool_vars, http_vars, unifi_vars, stdio_vars, backend_vars>>
other_than_backend == <<http_vars, unifi_vars, stdio_vars, fix_vars>>

\* ------------------------------------------------------------------ bounds
MaxBackendCalls == 2
MaxListings == 2
MaxRequests == 4
MaxCalls == 3
MaxArrivals == 3
MaxFailures == 1
MaxQbitCalls == 3

\* ------------------------------------------------------------- JSON values
StrV(x) == [type |-> "string", repr |-> x]
IntV(x) == [type |-> "integer", repr |-> x]
BoolV(x) == [type |-> "boolean", repr |-> x]
ObjV(x) == [type |-> "object", repr |-> x]
None == [type |-> "null", repr |-> "None"]

\* A get that forgets its default.
get_default_none(default) == None

\* The value of dict.get(key[, default]) for a missing key: None without a default.
get_default(default) == IF default = <<>> THEN None ELSE default[1]

EmptyMap == [k \in {} |-> None]

\* ------------------------------------------------- tool descriptions (Tool)
\* One property of an inputSchema: default is <<>> or <<value>>, enum is {} when
\* the schema has no "enum".
Prop(key, type, default, enum) ==
    [key |-> key, type |-> type, default |-> default, enum |-> enum]

Tool(name, props, required) ==
    [name |-> name, props |-> props, required |-> required]

\* The name without the interpolation braces.
QueueNameLiteral(service_name) == <<"service_name", "_get_queue">>

\* f"{service_name}_get_queue"
QueueName(service_name) == <<service_name, "_get_queue">>

RECURSIVE Join(_)
Join(name) == IF name = <<>> THEN "" ELSE Head(name) \o Join(Tail(name))

\* ------------------------------------------- statements of a call_tool branch
\* arguments["key"]
Sub(key) == [op |-> "sub", key |-> key, default |-> <<>>, params |-> <<>>]
\* arguments.get("key"[, default])
Get(key, default) == [op |-> "get", key |-> key, default |-> default, params |-> <<>>]
\* entity_id.split(".")
Split(key) == [op |-> "split", key |-> key, default |-> <<>>, params |-> <<>>]
\* arr_services["service"]
Lookup(service) == [op |-> "lookup", key |-> service, default |-> <<>>, params |-> <<>>]
\* client.method(...), params: the argument keys whose values are passed
Call(method, params) == [op |-> "call", key |-> method, default |-> <<>>, params |-> params]

\* An if/elif branch: its statements up to the backend call, the head of the text
\* it returns, and whether it dereferences what the backend returned.
Branch(steps, fmt, deref) == [tag |-> "branch", steps |-> steps, fmt |-> fmt, deref |-> deref]
\* The final else: "Unknown tool: {name}"
NoBranch == [tag |-> "else", steps |-> <<>>, fmt |-> "Unknown tool: ", deref |-> FALSE]
\* A branch that ends without a return statement
FallThrough == [tag |-> "fallthrough", steps |-> <<>>, fmt |-> "", deref |-> FALSE]

\* ---------------------------------------------- the servers, from the source
\* src/mcp-servers/containers/server.py: list_tools, lines 74-167
containers_tools ==
    << Tool(<<"list_containers">>, <<Prop("all", "boolean", <<BoolV("True")>>, {})>>, {})
     , Tool(<<"start_container">>, <<Prop("container_id", "string", <<>>, {})>>, {"container_id"})
     , Tool(<<"stop_container">>, <<Prop("container_id", "string", <<>>, {})>>, {"container_id"})
     , Tool(<<"restart_container">>, <<Prop("container_id", "string", <<>>, {})>>, {"container_id"})
     , Tool(<<"get_logs">>, <<Prop("container_id", "string", <<>>, {}), Prop("tail", "integer", <<IntV("100")>>, {})>>, {"container_id"})
     , Tool(<<"get_stats">>, <<Prop("container_id", "string", <<>>, {})>>, {"container_id"}) >>

\* src/mcp-servers/containers/server.py: call_tool, lines 169-229
containers_branch(name) ==
    CASE name = <<"list_containers">> ->
           Branch(<<Get("all", <<BoolV("True")>>), Call("get_containers", <<"all">>)>>, "Found ", TRUE)
      [] name = <<"start_container">> ->
           Branch(<<Sub("container_id"), Call("start_container", <<"container_id">>)>>, "Container ", FALSE)
      [] name = <<"stop_container">> ->
           Branch(<<Sub("container_id"), Call("stop_container", <<"container_id">>)>>, "Container ", FALSE)
      [] name = <<"restart_container">> ->
           Branch(<<Sub("container_id"), Call("restart_container", <<"container_id">>)>>, "Container ", FALSE)
      [] name = <<"get_logs">> ->
           Branch(<<Sub("container_id"), Get("tail", <<IntV("100")>>), Call("get_logs", <<"container_id", "tail">>)>>, "Logs for ", FALSE)
      [] name = <<"get_stats">> ->
           Branch(<<Sub("container_id"), Call("get_stats", <<"container_id">>)>>, "Stats for ", TRUE)
      [] OTHER -> NoBranch

\* src/mcp-servers/downloads/server.py: list_tools, lines 74-162
downloads_tools ==
    << Tool(<<"list_torrents">>, <<Prop("filter", "string", <<>>, {"downloading", "seeding", "completed", "paused", "active", "inactive", "all"})>>, {})
     , Tool(<<"add_torrent">>, <<Prop("url", "string", <<>>, {}), Prop("save_path", "string", <<>>, {})>>, {"url"})
     , Tool(<<"pause_torrent">>, <<Prop("torrent_hash", "string", <<>>, {})>>, {"torrent_hash"})
     , Tool(<<"resume_torrent">>, <<Prop("torrent_hash", "string", <<>>, {})>>, {"torrent_hash"})
     , Tool(<<"delete_torrent">>, <<Prop("torrent_hash", "string", <<>>, {}), Prop("delete_files", "boolean", <<BoolV("False")>>, {})>>, {"torrent_hash"})
     , Tool(<<"get_stats">>, <<>>, {}) >>

\* src/mcp-servers/downloads/server.py: call_tool, lines 164-219
downloads_branch(name) ==
    CASE name = <<"list_torrents">> ->
           Branch(<<Get("filter", <<>>), Call("get_torrents", <<"filter">>)>>, "Found ", TRUE)
      [] name = <<"add_torrent">> ->
           Branch(<<Sub("url"), Get("save_path", <<>>), Call("add_torrent", <<"url", "save_path">>)>>, "Torrent added successfully: ", FALSE)
      [] name = <<"pause_torrent">> ->
           Branch(<<Sub("torrent_hash"), Call("pause_torrent", <<"torrent_hash">>)>>, "Torrent ", FALSE)
      [] name = <<"resume_torrent">> ->
           Branch(<<Sub("torrent_hash"), Call("resume_torrent", <<"torrent_hash">>)>>, "Torrent ", FALSE)
      [] name = <<"delete_torrent">> ->
           Branch(<<Sub("torrent_hash"), Get("delete_files", <<BoolV("False")>>), Call("delete_torrent", <<"torrent_hash", "delete_files">>)>>, "Torrent ", FALSE)
      [] name = <<"get_stats">> ->
           Branch(<<Call("get_global_stats", <<>>)>>, "Global Statistics:\n", TRUE)
      [] OTHER -> NoBranch

\* src/mcp-servers/gaming/server.py: list_tools, lines 72-167
gaming_tools ==
    << Tool(<<"list_servers">>, <<>>, {})
     , Tool(<<"execute_command">>, <<Prop("server_name", "string", <<>>, {}), Prop("command", "string", <<>>, {})>>, {"server_name", "command"})
     , Tool(<<"list_players">>, <<Prop("server_name", "string", <<>>, {})>>, {"server_name"})
     , Tool(<<"send_message">>, <<Prop("server_name", "string", <<>>, {}), Prop("message", "string", <<>>, {})>>, {"server_name", "message"})
     , Tool(<<"set_time">>, <<Prop("server_name", "string", <<>>, {}), Prop("time", "string", <<>>, {})>>, {"server_name", "time"})
     , Tool(<<"set_weather">>, <<Prop("server_name", "string", <<>>, {}), Prop("weather", "string", <<>>, {})>>, {"server_name", "weather"}) >>

\* src/mcp-servers/gaming/server.py: call_tool, lines 169-217
gaming_branch(name) ==
    CASE name = <<"list_servers">> ->
           Branch(<<>>, IF minecraft_servers = {} THEN "No Minecraft servers configured"
                        ELSE "Configured Minecraft servers:\n\n", FALSE)
      [] name = <<"execute_command">> ->
           Branch(<<Sub("server_name"), Sub("command"), Call("execute_command", <<"server_name", "command">>)>>, "Command result:\n", FALSE)
      [] name = <<"list_players">> ->
           Branch(<<Sub("server_name"), Call("list_players", <<"server_name">>)>>, "", TRUE)
      [] name = <<"send_message">> ->
           Branch(<<Sub("server_name"), Sub("message"), Call("send_message", <<"server_name", "message">>)>>, "Message sent: ", FALSE)
      [] name = <<"set_time">> ->
           Branch(<<Sub("server_name"), Sub("time"), Call("set_time", <<"server_name", "time">>)>>, "Time set: ", FALSE)
      [] name = <<"set_weather">> ->
           Branch(<<Sub("server_name"), Sub("weather"), Call("set_weather", <<"server_name", "weather">>)>>, "Weather set: ", FALSE)
      [] OTHER -> NoBranch

\* src/mcp-servers/homeautomation/server.py: list_tools, lines 81-177
homeautomation_tools ==
    << Tool(<<"list_entities">>, <<Prop("domain", "string", <<>>, {})>>, {})
     , Tool(<<"get_entity_state">>, <<Prop("entity_id", "string", <<>>, {})>>, {"entity_id"})
     , Tool(<<"turn_on">>, <<Prop("entity_id", "string", <<>>, {})>>, {"entity_id"})
     , Tool(<<"turn_off">>, <<Prop("entity_id", "string", <<>>, {})>>, {"entity_id"})
     , Tool(<<"set_temperature">>, <<Prop("entity_id", "string", <<>>, {}), Prop("temperature", "number", <<>>, {})>>, {"entity_id", "temperature"})
     , Tool(<<"trigger_automation">>, <<Prop("automation_id", "string", <<>>, {})>>, {"automation_id"})
     , Tool(<<"list_services">>, <<>>, {}) >>

\* src/mcp-servers/homeautomation/server.py: call_tool, lines 179-256
homeautomation_branch(name) ==
    CASE name = <<"list_entities">> ->
           Branch(<<Call("get_states", <<>>), Get("domain", <<>>)>>, "Found ", TRUE)
      [] name = <<"get_entity_state">> ->
           Branch(<<Sub("entity_id"), Call("get_entity_state", <<"entity_id">>)>>, "Entity: ", TRUE)
      [] name = <<"turn_on">> ->
           Branch(<<Sub("entity_id"), Split("entity_id"), Call("call_service", <<"entity_id">>)>>, "", FALSE)
      [] name = <<"turn_off">> ->
           Branch(<<Sub("entity_id"), Split("entity_id"), Call("call_service", <<"entity_id">>)>>, "", FALSE)
      [] name = <<"set_temperature">> ->
           Branch(<<Sub("entity_id"), Sub("temperature"), Call("call_service", <<"entity_id", "temperature">>)>>, "Temperature set to ", FALSE)
      [] name = <<"trigger_automation">> ->
           Branch(<<Sub("automation_id"), Call("trigger_automation", <<"automation_id">>)>>, "Automation ", FALSE)
      [] name = <<"list_services">> ->
           Branch(<<Call("get_services", <<>>)>>, "Available Services:\n\n", TRUE)
      [] OTHER -> NoBranch

\* src/mcp-servers/media-management/server.py: arr_services, lines 71-87
ServiceOrder == <<"sonarr", "radarr", "lidarr", "prowlarr", "readarr">>

\* ArrClient.service_name of each entry, lines 75-87
ServiceTitle(service_name) ==
    CASE service_name = "sonarr" -> "Sonarr"
      [] service_name = "radarr" -> "Radarr"
      [] service_name = "lidarr" -> "Lidarr"
      [] service_name = "prowlarr" -> "Prowlarr"
      [] service_name = "readarr" -> "Readarr"
      [] OTHER -> ""

\* SONARR_URL, SONARR_API_KEY, ..., READARR_API_KEY (lines 21-30), each written
\* <<service, "URL">> or <<service, "API_KEY">>; a variable that is unset reads "".
ArrEnviron == {<<ServiceOrder[i], part>> : i \in 1..Len(ServiceOrder), part \in {"URL", "API_KEY"}}

\* A test of the URL alone.
url_set(service_name, env) == <<service_name, "URL">> \in env

\* if X_URL and X_API_KEY:, env the variables holding a non-empty value
url_and_key_set(service_name, env) ==
    <<service_name, "URL">> \in env /\ <<service_name, "API_KEY">> \in env

\* arr_services once the five if statements of lines 71-87 have run
load_arr_services(env) == SelectSeq(ServiceOrder, LAMBDA x : url_and_key_set(x, env))

\* key in arr_services
InDict(key, dict) == \E i \in 1..Len(dict) : dict[i] = key

\* A test of the whole name in place of its ending.
EndsWithWhole(name, suffix) == name = <<suffix>>

\* name.endswith(suffix), suffix a token
EndsWith(name, suffix) == Len(name) > 0 /\ name[Len(name)] = suffix

\* name.replace(old, ""), old a token
Replace(name, old) == Join(SelectSeq(name, LAMBDA t : t # old))

\* src/mcp-servers/media-management/server.py: list_tools, lines 92-164
media_management_sonarr_tools ==
    << Tool(<<"sonarr_get_series">>, <<>>, {})
     , Tool(<<"sonarr_get_calendar">>, <<>>, {})
     , Tool(<<"sonarr_search">>, <<Prop("query", "string", <<>>, {})>>, {"query"}) >>

media_management_radarr_tools ==
    << Tool(<<"radarr_get_movies">>, <<>>, {})
     , Tool(<<"radarr_get_calendar">>, <<>>, {})
     , Tool(<<"radarr_search">>, <<Prop("query", "string", <<>>, {})>>, {"query"}) >>

media_management_queue_tools(services) ==
    [i \in 1..Len(services) |-> Tool(QueueName(services[i]), <<>>, {})]

media_management_tools ==
    << Tool(<<"list_services">>, <<>>, {}) >>
    \o (IF InDict("sonarr", arr_services) THEN media_management_sonarr_tools ELSE <<>>)
    \o (IF InDict("radarr", arr_services) THEN media_management_radarr_tools ELSE <<>>)
    \o media_management_queue_tools(arr_services)

\* src/mcp-servers/media-management/server.py: call_tool, lines 166-254
media_management_branch(name) ==
    CASE name = <<"list_services">> ->
           Branch(<<>>, IF arr_services = <<>> THEN "No *Arr services configured"
                        ELSE "Configured *Arr services:\n\n", FALSE)
      [] name = <<"sonarr_get_series">> ->
           Branch(<<Lookup("sonarr"), Call("get", <<>>)>>, "Found ", TRUE)
      [] name = <<"sonarr_get_calendar">> ->
           Branch(<<Lookup("sonarr"), Call("get_calendar", <<>>)>>, "Upcoming episodes (", TRUE)
      [] name = <<"sonarr_search">> ->
           Branch(<<Sub("query"), Lookup("sonarr"), Call("search", <<"query">>)>>, "Search results for '", TRUE)
      [] name = <<"radarr_get_movies">> ->
           Branch(<<Lookup("radarr"), Call("get", <<>>)>>, "Found ", TRUE)
      [] name = <<"radarr_get_calendar">> ->
           Branch(<<Lookup("radarr"), Call("get_calendar", <<>>)>>, "Upcoming movies (", TRUE)
      [] name = <<"radarr_search">> ->
           Branch(<<Sub("query"), Lookup("radarr"), Call("search", <<"query">>)>>, "Search results for '", TRUE)
      [] EndsWith(name, "_get_queue") ->
           IF InDict(Replace(name, "_get_queue"), arr_services)
           THEN Branch(<<Call("get_queue", <<>>)>>,
                       ServiceTitle(Replace(name, "_get_queue")) \o " download queue (", TRUE)
           ELSE FallThrough
      [] OTHER -> NoBranch

\* src/mcp-servers/media-server/server.py: list_tools, lines 64-124
media_server_tools ==
    << Tool(<<"list_libraries">>, <<>>, {})
     , Tool(<<"scan_library">>, <<Prop("library_name", "string", <<>>, {})>>, {"library_name"})
     , Tool(<<"get_recently_added">>, <<Prop("library_name", "string", <<>>, {}), Prop("limit", "integer", <<IntV("10")>>, {})>>, {})
     , Tool(<<"get_sessions">>, <<>>, {})
     , Tool(<<"search">>, <<Prop("query", "string", <<>>, {})>>, {"query"}) >>

\* src/mcp-servers/media-server/server.py: call_tool, lines 126-188
media_server_branch(name) ==
    CASE name = <<"list_libraries">> ->
           Branch(<<Call("get_libraries", <<>>)>>, "Found ", TRUE)
      [] name = <<"scan_library">> ->
           Branch(<<Sub("library_name"), Call("scan_library", <<"library_name">>)>>, "", TRUE)
      [] name = <<"get_recently_added">> ->
           Branch(<<Get("library_name", <<>>), Get("limit", <<IntV("10")>>), Call("get_recently_added", <<"library_name", "limit">>)>>, "Recently added (", TRUE)
      [] name = <<"get_sessions">> ->
           Branch(<<Call("get_sessions", <<>>)>>, "Active sessions (", TRUE)
      [] name = <<"search">> ->
           Branch(<<Sub("query"), Call("search", <<"query">>)>>, "Search results for '", TRUE)
      [] OTHER -> NoBranch

\* src/mcp-servers/network/server.py: list_tools, lines 130-233
network_tools ==
    << Tool(<<"list_devices">>, <<Prop("site", "string", <<StrV("default")>>, {})>>, {})
     , Tool(<<"list_clients">>, <<Prop("site", "string", <<StrV("default")>>, {})>>, {})
     , Tool(<<"block_client">>, <<Prop("mac", "string", <<>>, {}), Prop("site", "string", <<StrV("default")>>, {})>>, {"mac"})
     , Tool(<<"unblock_client">>, <<Prop("mac", "string", <<>>, {}), Prop("site", "string", <<StrV("default")>>, {})>>, {"mac"})
     , Tool(<<"restart_device">>, <<Prop("mac", "string", <<>>, {}), Prop("site", "string", <<StrV("default")>>, {})>>, {"mac"})
     , Tool(<<"list_wlans">>, <<Prop("site", "string", <<StrV("default")>>, {})>>, {}) >>

\* src/mcp-servers/network/server.py: call_tool, lines 235-296
network_branch(name) ==
    CASE name = <<"list_devices">> ->
           Branch(<<Call("get_devices", <<"site">>)>>, "Found ", TRUE)
      [] name = <<"list_clients">> ->
           Branch(<<Call("get_clients", <<"site">>)>>, "Found ", TRUE)
      [] name = <<"block_client">> ->
           Branch(<<Sub("mac"), Call("block_client", <<"mac", "site">>)>>, "Client ", FALSE)
      [] name = <<"unblock_client">> ->
           Branch(<<Sub("mac"), Call("unblock_client", <<"mac", "site">>)>>, "Client ", FALSE)
      [] name = <<"restart_device">> ->
           Branch(<<Sub("mac"), Call("restart_device", <<"mac", "site">>)>>, "Device ", FALSE)
      [] name = <<"list_wlans">> ->
           Branch(<<Call("get_wlans", <<"site">>)>>, "Found ", TRUE)
      [] OTHER -> NoBranch

\* src/mcp-servers/virtualization/server.py: list_tools, lines 122-253
virtualization_tools ==
    << Tool(<<"list_nodes">>, <<>>, {})
     , Tool(<<"list_vms">>, <<Prop("node", "string", <<>>, {})>>, {"node"})
     , Tool(<<"list_containers">>, <<Prop("node", "string", <<>>, {})>>, {"node"})
     , Tool(<<"start_vm">>, <<Prop("node", "string", <<>>, {}), Prop("vmid", "integer", <<>>, {})>>, {"node", "vmid"})
     , Tool(<<"stop_vm">>, <<Prop("node", "string", <<>>, {}), Prop("vmid", "integer", <<>>, {})>>, {"node", "vmid"})
     , Tool(<<"reboot_vm">>, <<Prop("node", "string", <<>>, {}), Prop("vmid", "integer", <<>>, {})>>, {"node", "vmid"})
     , Tool(<<"vm_status">>, <<Prop("node", "string", <<>>, {}), Prop("vmid", "integer", <<>>, {})>>, {"node", "vmid"})
     , Tool(<<"create_snapshot">>, <<Prop("node", "string", <<>>, {}), Prop("vmid", "integer", <<>>, {}), Prop("snapname", "string", <<>>, {})>>, {"node", "vmid", "snapname"}) >>

\* src/mcp-servers/virtualization/server.py: call_tool, lines 255-337
virtualization_branch(name) ==
    CASE name = <<"list_nodes">> ->
           Branch(<<Call("get_nodes", <<>>)>>, "Found ", TRUE)
      [] name = <<"list_vms">> ->
           Branch(<<Sub("node"), Call("get_vms", <<"node">>)>>, "Found ", TRUE)
      [] name = <<"list_containers">> ->
           Branch(<<Sub("node"), Call("get_containers", <<"node">>)>>, "Found ", TRUE)
      [] name = <<"start_vm">> ->
           Branch(<<Sub("node"), Sub("vmid"), Call("start_vm", <<"node", "vmid">>)>>, "VM ", FALSE)
      [] name = <<"stop_vm">> ->
           Branch(<<Sub("node"), Sub("vmid"), Call("stop_vm", <<"node", "vmid">>)>>, "VM ", FALSE)
      [] name = <<"reboot_vm">> ->
           Branch(<<Sub("node"), Sub("vmid"), Call("reboot_vm", <<"node", "vmid">>)>>, "VM ", FALSE)
      [] name = <<"vm_status">> ->
           Branch(<<Sub("node"), Sub("vmid"), Call("vm_status", <<"node", "vmid">>)>>, "VM ", TRUE)
      [] name = <<"create_snapshot">> ->
           Branch(<<Sub("node"), Sub("vmid"), Sub("snapname"), Call("create_snapshot", <<"node", "vmid", "snapname">>)>>, "Snapshot '", FALSE)
      [] OTHER -> NoBranch

\* src/mcp-servers/workflows/server.py: list_tools, lines 76-130
workflows_tools ==
    << Tool(<<"list_workflows">>, <<>>, {})
     , Tool(<<"get_workflow">>, <<Prop("workflow_id", "string", <<>>, {})>>, {"workflow_id"})
     , Tool(<<"trigger_workflow">>, <<Prop("workflow_id", "string", <<>>, {}), Prop("data", "object", <<>>, {})>>, {"workflow_id"})
     , Tool(<<"list_executions">>, <<Prop("workflow_id", "string", <<>>, {})>>, {}) >>

\* src/mcp-servers/workflows/server.py: call_tool, lines 132-181
workflows_branch(name) ==
    CASE name = <<"list_workflows">> ->
           Branch(<<Call("get_workflows", <<>>)>>, "Found ", TRUE)
      [] name = <<"get_workflow">> ->
           Branch(<<Sub("workflow_id"), Call("get_workflow", <<"workflow_id">>)>>, "Workflow: ", TRUE)
      [] name = <<"trigger_workflow">> ->
           Branch(<<Sub("workflow_id"), Get("data", <<>>), Call("trigger_workflow", <<"workflow_id", "data">>)>>, "Workflow ", FALSE)
      [] name = <<"list_executions">> ->
           Branch(<<Get("workflow_id", <<>>), Call("get_executions", <<"workflow_id">>)>>, "Found ", TRUE)
      [] OTHER -> NoBranch

\* --------------------------------------------------------------- dispatch
Servers ==
    {"containers", "downloads", "gaming", "homeautomation", "media-management",
     "media-server", "network", "virtualization", "workflows"}

\* The list a server's list_tools handler returns.
list_tools(s) ==
    CASE s = "containers" -> containers_tools
      [] s = "downloads" -> downloads_tools
      [] s = "gaming" -> gaming_tools
      [] s = "homeautomation" -> homeautomation_tools
      [] s = "media-management" -> media_management_tools
      [] s = "media-server" -> media_server_tools
      [] s = "network" -> network_tools
      [] s = "virtualization" -> virtualization_tools
      [] s = "workflows" -> workflows_tools

\* The if/elif chain of a server's call_tool.
branch_of(s, name) ==
    CASE s = "containers" -> containers_branch(name)
      [] s = "downloads" -> downloads_branch(name)
      [] s = "gaming" -> gaming_branch(name)
      [] s = "homeautomation" -> homeautomation_branch(name)
      [] s = "media-management" -> media_management_branch(name)
      [] s = "media-server" -> media_server_branch(name)
      [] s = "network" -> network_branch(name)
      [] s = "virtualization" -> virtualization_branch(name)
      [] s = "workflows" -> workflows_branch(name)

\* Statements call_tool runs before the if/elif chain: the network server reads
\* site = arguments.get("site", "default") first, whatever the tool name.
pre_steps(s) ==
    IF s = "network" THEN <<Get("site", <<StrV("default")>>)>> ELSE <<>>

\* ------------------------------------------------------------- exceptions
\* origin: "handler" (raised by a statement of call_tool), "backend" (raised by
\* the backend client's method), "format" (raised while formatting its answer).
Exc(type, text, origin) == [type |-> type, text |-> text, origin |-> origin]
NoExc == Exc("", "", "none")

\* What the called backend does: "ok" answers, "malformed" answers with data the
\* branch cannot format, "raise" and "raise_empty" raise (str(e) == "" for the latter).
Outcomes == {"ok", "malformed", "raise", "raise_empty"}

\* A backend client method.  MinecraftClient.execute_command raises ValueError for
\* a server name that is not configured before it connects.
backend(s, args, outcome) ==
    IF s = "gaming" /\ ~(args["server_name"].type = "string"
                         /\ args["server_name"].repr \in minecraft_servers)
    THEN Exc("ValueError", "Server " \o args["server_name"].repr \o " not found", "backend")
    ELSE IF outcome = "raise" THEN Exc("Exception", "upstream failure", "backend")
    ELSE IF outcome = "raise_empty" THEN Exc("Exception", "", "backend")
    ELSE NoExc

Bind(env, key, value) ==
    [k \in DOMAIN env \cup {key} |-> IF k = key THEN value ELSE env[k]]

\* A call that hands the whole argument mapping to the backend.
call_args_all(params, env, arguments) ==
    [k \in {params[j] : j \in 1..Len(params)} \cup DOMAIN arguments.map |->
        IF k \in DOMAIN env THEN env[k] ELSE arguments.map[k]]

\* The values a backend call is given: those the branch read for its parameters.
call_args(params, env, arguments) ==
    [k \in {params[j] : j \in 1..Len(params)} |-> env[k]]

Running(calls) == [exc |-> NoExc, calls |-> calls]
Raised(exc, calls) == [exc |-> exc, calls |-> calls]

\* The statements of a branch, in program order.  arguments is
\* [present, map]: present = FALSE is the absent mapping (None).
RECURSIVE run_steps(_, _, _, _, _, _, _)
run_steps(s, steps, i, arguments, outcome, env, calls) ==
    IF i > Len(steps) THEN Running(calls)
    ELSE LET st == steps[i] IN
      CASE st.op = "sub" ->
             IF ~arguments.present
             THEN Raised(Exc("TypeError", "'NoneType' object is not subscriptable", "handler"), calls)
             ELSE IF st.key \notin DOMAIN arguments.map
             THEN Raised(Exc("KeyError", "'" \o st.key \o "'", "handler"), calls)
             ELSE run_steps(s, steps, i + 1, arguments, outcome,
                            Bind(env, st.key, arguments.map[st.key]), calls)
        [] st.op = "get" ->
             IF ~arguments.present
             THEN Raised(Exc("AttributeError", "'NoneType' object has no attribute 'get'", "handler"), calls)
             ELSE run_steps(s, steps, i + 1, arguments, outcome,
                            Bind(env, st.key,
                                 IF st.key \in DOMAIN arguments.map
                                 THEN arguments.map[st.key] ELSE get_default(st.default)),
                            calls)
        [] st.op = "split" ->
             IF env[st.key].type # "string"
             THEN Raised(Exc("AttributeError", "object has no attribute 'split'", "handler"), calls)
             ELSE run_steps(s, steps, i + 1, arguments, outcome, env, calls)
        [] st.op = "lookup" ->
             IF ~InDict(st.key, arr_services)
             THEN Raised(Exc("KeyError", "'" \o st.key \o "'", "handler"), calls)
             ELSE run_steps(s, steps, i + 1, arguments, outcome, env, calls)
        [] st.op = "call" ->
             LET args == call_args(st.params, env, arguments)
                 made == Append(calls, [method |-> st.key, args |-> args])
                 e == backend(s, args, outcome)
             IN  IF e # NoExc THEN Raised(e, made)
                 ELSE run_steps(s, steps, i + 1, arguments, outcome, env, made)

\* ---------------------------------------------------------------- call_tool
TextContent(text) == [type |-> "text", text |-> text]

\* What a call of the handler comes to: kind "return" with the content list,
\* "none" (the function ended without a return statement) or "raise" with exc.
\* calls are the backend invocations it made; caught is the exception its except
\* clause handled, if any.
Outcome(kind, content, exc, calls, caught) ==
    [kind |-> kind, content |-> content, exc |-> exc, calls |-> calls, caught |-> caught]

\* The body of the try statement.
call_tool_body(s, name, arguments, outcome) ==
    LET br == branch_of(s, name)
        r == run_steps(s, pre_steps(s) \o br.steps, 1, arguments, outcome, EmptyMap, <<>>)
    IN  IF r.exc # NoExc THEN Outcome("raise", <<>>, r.exc, r.calls, NoExc)
        ELSE CASE br.tag = "else" ->
                    Outcome("return", <<TextContent("Unknown tool: " \o Join(name))>>,
                            NoExc, r.calls, NoExc)
               [] br.tag = "fallthrough" ->
                    Outcome("none", <<>>, NoExc, r.calls, NoExc)
               [] br.tag = "branch" ->
                    IF br.deref /\ outcome = "malformed" /\ r.calls # <<>>
                    THEN Outcome("raise", <<>>,
                                 Exc("TypeError", "unexpected backend data", "format"),
                                 r.calls, NoExc)
                    ELSE Outcome("return",
                                 <<TextContent(br.fmt \o (IF r.calls # <<>> THEN "<data>" ELSE ""))>>,
                                 NoExc, r.calls, NoExc)

\* A handler with no except clause (a fault propagates to the caller).
call_tool_unguarded(s, name, arguments, outcome) ==
    call_tool_body(s, name, arguments, outcome)

\* try: <body> except Exception as e: return [TextContent(text=f"Error: {str(e)}")]
call_tool(s, name, arguments, outcome) ==
    LET b == call_tool_body(s, name, arguments, outcome)
    IN  IF b.kind = "raise"
        THEN Outcome("return", <<TextContent("Error: " \o b.exc.text)>>, NoExc, b.calls, b.exc)
        ELSE b

\* The result the Server object sends for a handler registered with
\* @app.call_tool(): the content list a handler returned, which is not an error
\* result; only a handler that raised, or returned no list, yields isError.
call_tool_result(h) ==
    IF h.kind = "return"
    THEN [content |-> h.content, isError |-> FALSE]
    ELSE [content |-> <<TextContent(IF h.kind = "raise" THEN h.exc.text
                                    ELSE "'NoneType' object is not iterable")>>,
          isError |-> TRUE]

\* ------------------------------------------------------ requests considered
\* Every tool a server can list under some configuration.
AllTools(s) ==
    IF s = "media-management"
    THEN << Tool(<<"list_services">>, <<>>, {}) >> \o media_management_sonarr_tools
         \o media_management_radarr_tools \o media_management_queue_tools(ServiceOrder)
    ELSE list_tools(s)

UnlistedNames == {<<"no_such_tool">>, <<"foo", "_get_queue">>}

Names(s) == {AllTools(s)[i].name : i \in 1..Len(AllTools(s))} \cup UnlistedNames

PropsOf(s, name) ==
    IF \E i \in 1..Len(AllTools(s)) : AllTools(s)[i].name = name
    THEN (CHOOSE t \in {AllTools(s)[i] : i \in 1..Len(AllTools(s))} : t.name = name).props
    ELSE <<>>

\* A value conforms to a property: its type is the declared one (an integer is a
\* number) and, when the property has an enum, it is one of the listed values.
Conforms(v, p) ==
    /\ v.type = p.type \/ (p.type = "number" /\ v.type = "integer")
    /\ p.enum # {} => v.repr \in p.enum

Samples == {StrV("alpha"), StrV("seeding"), IntV("5"), BoolV("True"), BoolV("False"), ObjV("{}")}

\* The values tried for a property: conforming ones, one of another type and,
\* for an enum, a string that is not listed.
Choices(p) ==
    {v \in Samples : Conforms(v, p) /\ (v = StrV("seeding") => p.enum # {})}
    \cup {IF p.type = "string" THEN IntV("5") ELSE StrV("alpha")}
    \cup (IF p.enum # {} THEN {StrV("alpha")} ELSE {})

\* A property no schema declares.
ExtraKey == "x_extra"
ExtraValue == StrV("zzz")

RECURSIVE MapsFrom(_, _)
MapsFrom(props, i) ==
    IF i > Len(props) THEN {EmptyMap, (ExtraKey :> ExtraValue)}
    ELSE LET rest == MapsFrom(props, i + 1)
         IN  rest \cup {m @@ (props[i].key :> v) : m \in rest, v \in Choices(props[i])}

Absent == [present |-> FALSE, map |-> EmptyMap]

Arguments(s, name) ==
    {Absent} \cup {[present |-> TRUE, map |-> m] : m \in MapsFrom(PropsOf(s, name), 1)}

\* ------------------------------------- the network server's ASGI application
\* Session ids a transport can hand out; "none" is a request that names no session.
SessionIds == {"s1", "s2", "s3"}

Request(method, path, session_id) ==
    [method |-> method, path |-> path, session_id |-> session_id]

Response(status, body) == [status |-> status, body |-> body]

\* Route(path, endpoint) with a function endpoint and no methods argument: the
\* route answers GET (and HEAD).
Route(path, endpoint) ==
    [path |-> path, endpoint |-> endpoint, methods |-> {"GET", "HEAD"}]

\* create_app(): Starlette(debug=True, routes=[...])
create_app ==
    [debug |-> TRUE,
     routes |-> << Route("/health", "health_check"), Route("/sse", "handle_sse") >>]

\* The application's router: the first route whose path matches serves the
\* request if it allows the method (405 otherwise); no matching path is 404.
router(app, request) ==
    LET matching == {i \in 1..Len(app.routes) : app.routes[i].path = request.path}
    IN  IF matching = {}
        THEN [endpoint |-> "none", response |-> Response(404, [text |-> "Not Found"])]
        ELSE LET r == app.routes[CHOOSE i \in matching : \A j \in matching : i <= j]
             IN  IF request.method \in r.methods
                 THEN [endpoint |-> r.endpoint, response |-> Response(0, [text |-> ""])]
                 ELSE [endpoint |-> "none",
                       response |-> Response(405, [text |-> "Method Not Allowed"])]

\* A health check that looks at the sessions.
health_check_of_sessions(request) ==
    IF request.session_id \in closed_streams
    THEN Response(503, [status |-> "unhealthy"])
    ELSE Response(200, [status |-> "healthy"])

\* return JSONResponse({"status": "healthy"})
health_check(request) == Response(200, [status |-> "healthy"])

\* An HTTP exchange: open tells whether the session the request names had its
\* /sse stream open when the request was served.
Exchange(request, response) ==
    [request |-> request, response |-> response, open |-> request.session_id \in streams]

NoExchange ==
    [request |-> Request("", "", "none"), response |-> Response(0, [text |-> ""]),
     open |-> FALSE]

\* The ASGI application serving nothing (a process on the stdio transport, or
\* one looked at without its transport).
HttpUnused ==
    /\ streams = {}
    /\ closed_streams = {}
    /\ http_last = NoExchange
    /\ http_count = 0
    /\ handler_runs = 0

\* ------------------------------------------ the network server's UnifiClient
\* The coroutines that can be in flight together.
Tasks == {1, 2}

\* self.cookies = None
NoCookies == [call |-> 0, session |-> "none"]

\* response.cookies of the login request made by a call: the controller issues
\* a jar of its own to every login.
Jar(call, session_id) == [call |-> call, session |-> session_id]

\* UnifiClient.login once its POST has come back: with a good response it stores
\* the response's cookies and returns True; any exception is logged and False is
\* returned, self.cookies keeping what it held.
login(ok, call, session_id, held) ==
    IF ok THEN [returned |-> TRUE, cookies |-> Jar(call, session_id)]
    ELSE [returned |-> FALSE, cookies |-> held]

\* The tools of the network server with arguments that satisfy their schemas.
UnifiCalls ==
    {[name |-> network_tools[i].name,
      arguments |-> [present |-> TRUE,
                     map |-> [k \in network_tools[i].required |-> StrV("alpha")]]] :
        i \in 1..Len(network_tools)}

IdleTask ==
    [state |-> "idle", session |-> "none", call |-> 0, name |-> <<>>,
     arguments |-> Absent, login_ok |-> FALSE, carried |-> NoCookies,
     result |-> [content |-> <<>>, isError |-> FALSE]]

\* The shared client with no call made.
UnifiUnused ==
    /\ cookies = NoCookies
    /\ tasks = [t \in Tasks |-> IdleTask]
    /\ calls_started = 0

\* ------------------------------------------- a process on the stdio transport
\* The servers whose main() serves stdio_server().
StdioServers == Servers \ {"network"}

\* The environment variables a server reads with os.getenv(name), no default.
required_env(s) ==
    CASE s = "containers" -> {"PORTAINER_API_KEY"}
      [] s = "downloads" -> {"QBITTORRENT_PASSWORD"}
      [] s = "gaming" -> {}
      [] s = "homeautomation" -> {"HA_TOKEN"}
      [] s = "media-management" -> {}
      [] s = "media-server" -> {"PLEX_TOKEN"}
      [] s = "virtualization" -> {"PROXMOX_TOKEN_NAME", "PROXMOX_TOKEN_VALUE"}
      [] s = "workflows" -> {"N8N_API_KEY"}
      [] OTHER -> {"UNIFI_PASSWORD"}

\* Module-level code that calls into a library which may raise while the module
\* is loaded: docker.from_env(), PlexServer(...), json.loads(...).  The other
\* servers only store strings, None included.
startup_can_raise(s) == s \in {"containers", "media-server", "gaming"}

\* The servers whose backend client is called without await.
blocking_backend(s) == s \in {"containers", "downloads", "gaming", "media-server"}

\* httpx.AsyncClient(timeout=30.0) of the servers that await their backend: <<>>
\* where call_tool sets no deadline.
deadline(s) == IF blocking_backend(s) THEN <<>> ELSE <<30>>

\* A tool of each server that reaches the backend, with arguments its schema accepts.
BackendTool(s) ==
    LET tool == CHOOSE x \in {list_tools(s)[i] : i \in 1..Len(list_tools(s))} :
                    branch_of(s, x.name).tag = "branch"
                    /\ \E i \in 1..Len(branch_of(s, x.name).steps) :
                          branch_of(s, x.name).steps[i].op = "call"
    IN  [name |-> tool.name,
         arguments |-> [present |-> TRUE,
                        map |-> [k \in tool.required |-> StrV("alpha")]]]

NoJob == [state |-> "none", hung |-> FALSE, result |-> [content |-> <<>>, isError |-> FALSE]]

\* No process on the stdio transport is looked at.
StdioUnused ==
    /\ proc = "exited"
    /\ exit_code = 0
    /\ config = {}
    /\ loop = 0
    /\ jobs = [j \in Tasks |-> NoJob]
    /\ arrivals = 0

\* ------------------------------------------------------------ fix_servers.py
\* A text is a sequence of pieces: the strings the script searches for are
\* pieces of their own, everything between them is one piece.
SERVERS ==
    << "virtualization", "workflows", "containers", "gaming", "media-server",
       "downloads", "media-management" >>

NEW_IMPORTS ==
    << "from fastapi.responses import JSONResponse", "import uvicorn",
       "from starlette.applications import Starlette",
       "from starlette.routing import Route",
       "from mcp.server.sse import SseServerTransport" >>

MAIN_TEMPLATE ==
    << "async def health_check(request):", "async def handle_sse(request):",
       "def create_app():", "if __name__:", "uvicorn.run(create_app())" >>

\* A server.py as the repository has it for a server on stdio.
StdioServerPy ==
    << "<head>", "from mcp.server import Server",
       "from mcp.server.stdio import stdio_server",
       "from mcp.types import Tool, TextContent", "<body>",
       "async def main():", "async with stdio_server():", "if __name__:",
       "asyncio.run(main())", "<eof>" >>

\* A server.py whose main is run in a way the pattern does not match.
OtherMainServerPy ==
    << "<head>", "from mcp.server import Server",
       "from mcp.server.stdio import stdio_server",
       "from mcp.types import Tool, TextContent", "<body>",
       "async def main():", "async with stdio_server():", "if __name__:",
       "<other run>", "<eof>" >>

\* A server.py as the repository has it for the network server.
SseServerPy ==
    << "<head>", "from mcp.server import Server",
       "from mcp.types import Tool, TextContent", "from fastapi import FastAPI" >>
    \o NEW_IMPORTS \o << "<body>" >> \o MAIN_TEMPLATE \o << "<eof>" >>

\* A server.py on stdio whose main imports JSONResponse for itself: the only
\* 'from fastapi.responses import JSONResponse' of the file is in the main region.
LocalImportServerPy ==
    << "<head>", "from mcp.server import Server",
       "from mcp.server.stdio import stdio_server",
       "from mcp.types import Tool, TextContent", "<body>",
       "async def main():", "from fastapi.responses import JSONResponse",
       "async with stdio_server():", "if __name__:",
       "asyncio.run(main())", "<eof>" >>

File(text) == [exists |-> TRUE, text |-> text]
NoFile == [exists |-> FALSE, text |-> <<>>]

\* piece in content
Contains(text, piece) == \E i \in 1..Len(text) : text[i] = piece

\* content.replace(piece, replacement) from position k of the text on: every
\* occurrence, left to right
RECURSIVE replace_from(_, _, _, _)
replace_from(text, piece, replacement, k) ==
    IF k > Len(text) THEN <<>>
    ELSE IF text[k] = piece THEN replacement \o replace_from(text, piece, replacement, k + 1)
    ELSE <<text[k]>> \o replace_from(text, piece, replacement, k + 1)

\* content.replace(piece, replacement)
replace(text, piece, replacement) == replace_from(text, piece, replacement, 1)

\* A substitution of everything from 'async def main():' to the end of the file.
sub_main_to_end(text) ==
    IF \E i \in 1..Len(text) : text[i] = "async def main():"
    THEN LET i == CHOOSE x \in 1..Len(text) :
                     /\ text[x] = "async def main():"
                     /\ \A y \in 1..(x - 1) : text[y] # "async def main():"
         IN  SubSeq(text, 1, i - 1) \o MAIN_TEMPLATE
    ELSE text

\* Where the lazy '.*?' of main_pattern ends: the first 'asyncio.run(main())'
\* at or after position k of the text, 0 if there is none.
RECURSIVE search_run(_, _)
search_run(text, k) ==
    IF k > Len(text) THEN 0
    ELSE IF text[k] = "asyncio.run(main())" THEN k
    ELSE search_run(text, k + 1)

\* re.sub(main_pattern, MAIN_TEMPLATE.strip(), content, flags=re.DOTALL) with
\* main_pattern = r'async def main\(\):.*?asyncio\.run\(main\(\)\)': every
\* stretch from an 'async def main():' to the nearest 'asyncio.run(main())'
\* after it is replaced by the template; the text is gone through from
\* position k on.
RECURSIVE sub_main_from(_, _)
sub_main_from(text, k) ==
    IF k > Len(text) THEN <<>>
    ELSE IF text[k] = "async def main():" /\ search_run(text, k + 1) # 0
    THEN MAIN_TEMPLATE \o sub_main_from(text, search_run(text, k + 1) + 1)
    ELSE <<text[k]>> \o sub_main_from(text, k + 1)

\* lines 88-91 of fix_server
sub_main(text) == sub_main_from(text, 1)

\* lines 79-85 of fix_server
replace_imports(content) ==
    IF ~Contains(content, "from fastapi.responses import JSONResponse")
    THEN replace(content, "from mcp.server import Server",
                 <<"from mcp.server import Server">> \o NEW_IMPORTS)
    ELSE content

\* The new content of a server.py (lines 77-91 of fix_server): the three
\* rewritings one after the other, the text of each stage held as the one
\* element of a set.
fix_server_py(content) ==
    LET removed == {replace(content, "from mcp.server.stdio import stdio_server", <<>>)}
        imported == {replace_imports(text) : text \in removed}
        substituted == {sub_main(text) : text \in imported}
    IN  CHOOSE text \in substituted : TRUE

\* REQS_NEW, lines 59-65; no statement of the script reads it.
REQS_NEW ==
    << "mcp>=0.9.0", "httpx>=0.27.0", "fastapi>=0.115.0", "uvicorn>=0.32.0",
       "pydantic>=2.0.0", "starlette>=0.27.0", "sse-starlette>=1.6.5" >>

\* content.strip().split('\n'): the lines without the empty lines at both ends
RECURSIVE strip(_)
strip(lines) ==
    IF lines = <<>> THEN <<>>
    ELSE IF Head(lines) = "" THEN strip(Tail(lines))
    ELSE IF lines[Len(lines)] = "" THEN strip(SubSeq(lines, 1, Len(lines) - 1))
    ELSE lines

\* A requirement line that has 'starlette' in it.
MentionsStarlette(lines) ==
    \E i \in 1..Len(lines) : lines[i] \in {"starlette>=0.27.0", "sse-starlette>=1.6.5"}

\* The new content of a requirements.txt (lines 98-106 of fix_server); a text
\* of lines here, "" an empty line.
fix_requirements(content) ==
    IF MentionsStarlette(content) THEN content
    ELSE strip(content) \o <<"starlette>=0.27.0", "sse-starlette>=1.6.5">>

\* What may fail in one fix_server: reading or writing one of the two files.
FailurePoints == {"none", "read server.py", "write server.py",
                  "read requirements.txt", "write requirements.txt"}

Line(kind, server_name) == [kind |-> kind, server |-> server_name]

\* fix_server(server_name) on the two files of the directory: the files as it
\* leaves them, what it printed, and whether it raised.
fix_server(server_name, dir, failure) ==
    LET fixing == <<Line("Fixing", server_name)>>
        py_raises == dir.server_py.exists /\ failure \in {"read server.py", "write server.py"}
        py_written == dir.server_py.exists /\ ~py_raises
        py == IF py_written THEN File(fix_server_py(dir.server_py.text)) ELSE dir.server_py
        py_out == IF py_written THEN <<Line("Updated server.py", server_name)>> ELSE <<>>
        reqs_reached == ~py_raises /\ dir.requirements.exists
        reqs_writes == reqs_reached /\ ~MentionsStarlette(dir.requirements.text)
        reqs_raises == \/ reqs_reached /\ failure = "read requirements.txt"
                       \/ reqs_writes /\ failure = "write requirements.txt"
        reqs == IF reqs_writes /\ ~reqs_raises
                THEN File(fix_requirements(dir.requirements.text)) ELSE dir.requirements
        reqs_out == IF reqs_reached /\ ~reqs_raises
                    THEN <<Line("Updated requirements.txt", server_name)>> ELSE <<>>
    IN  [dir |-> [server_py |-> py, requirements |-> reqs],
         output |-> fixing \o py_out \o reqs_out,
         raised |-> py_raises \/ reqs_raises]

\* The files a server directory can hold before a run.
ServerPys ==
    {File(StdioServerPy), File(SseServerPy), File(OtherMainServerPy),
     File(LocalImportServerPy), NoFile}

Requirements ==
    {File(<<"mcp>=0.9.0">>), File(<<"mcp>=0.9.0", "">>),
     File(<<"mcp>=0.9.0", "starlette>=0.27.0", "sse-starlette>=1.6.5">>), NoFile}

\* The tree of the repository: eight servers on stdio, the network server on
\* HTTP/SSE.
RepositoryTree ==
    [d \in Servers |->
        [server_py |-> IF d = "network" THEN File(SseServerPy) ELSE File(StdioServerPy),
         requirements |-> File(<<"mcp>=0.9.0">>)]]

\* No run of the script is looked at.
FixUnused ==
    /\ files = RepositoryTree
    /\ cursor = 0
    /\ output = <<>>
    /\ failures = 0
    /\ done = FALSE

\* ------------------------------------------------------- the backend clients
\* src/mcp-servers/downloads/server.py
\* qbit = QBittorrentClient() (line 72): _client is None, written 0.  The other
\* fields count the Client objects constructed, the constructions that raised
\* and the tool calls that read qbit.client, and hold the client the last tool
\* call worked with.
NoQbit == [client |-> 0, constructed |-> 0, failed |-> 0, calls |-> 0, used |-> <<>>]

\* A property that constructs a Client whenever it is read.
client_unchecked(q, constructs) ==
    IF constructs
    THEN [q |-> [q EXCEPT !.client = q.constructed + 1, !.constructed = @ + 1],
          value |-> q.constructed + 1, raised |-> FALSE]
    ELSE [q |-> [q EXCEPT !.failed = @ + 1], value |-> 0, raised |-> TRUE]

\* QBittorrentClient.client, lines 31-41; constructs: Client(...) returns rather
\* than raises.  Each Client constructed is written by its number.
client(q, constructs) ==
    IF q.client = 0
    THEN IF constructs
         THEN [q |-> [q EXCEPT !.client = q.constructed + 1, !.constructed = @ + 1],
               value |-> q.constructed + 1, raised |-> FALSE]
         ELSE [q |-> [q EXCEPT !.failed = @ + 1], value |-> 0, raised |-> TRUE]
    ELSE [q |-> q, value |-> q.client, raised |-> FALSE]

\* src/mcp-servers/gaming/server.py
\* The RCON connections open now and, for the tool call served last, the
\* MCRcon objects entered, the connections opened, the commands sent and the
\* connections closed.
NoRcon == [open |-> 0, attempts |-> 0, opened |-> 0, sent |-> 0, closed |-> 0]

\* connect, command and disconnect in a row, with no with statement.
execute_command_unmanaged(r, known, connects, answers) ==
    IF ~known THEN [r |-> r, raised |-> TRUE]
    ELSE IF ~connects
    THEN [r |-> [r EXCEPT !.attempts = @ + 1], raised |-> TRUE]
    ELSE IF ~answers
    THEN [r |-> [r EXCEPT !.attempts = @ + 1, !.opened = @ + 1, !.sent = @ + 1,
                          !.open = @ + 1],
          raised |-> TRUE]
    ELSE [r |-> [r EXCEPT !.attempts = @ + 1, !.opened = @ + 1, !.sent = @ + 1,
                          !.closed = @ + 1],
          raised |-> FALSE]

\* MinecraftClient.execute_command, lines 30-42.  known: server_name is a key of
\* self.servers; connects: MCRcon.__enter__ returns rather than raises; answers:
\* mcr.command returns rather than raises.  Leaving the with block, by return or
\* by exception, runs MCRcon.__exit__, which disconnects.
execute_command(r, known, connects, answers) ==
    IF ~known THEN [r |-> r, raised |-> TRUE]
    ELSE IF ~connects
    THEN [r |-> [r EXCEPT !.attempts = @ + 1], raised |-> TRUE]
    ELSE [r |-> [r EXCEPT !.attempts = @ + 1, !.opened = @ + 1, !.sent = @ + 1,
                          !.closed = @ + 1],
          raised |-> ~answers]

\* src/mcp-servers/homeautomation/server.py
\* An entity id is a sequence of tokens whose concatenation is the Python
\* string, "." a token of its own; an entity with no entity_id has <<>>, as
\* s.get("entity_id", "") reads it.  The domain argument is [present, tokens].
\* The text is kept in its parts: the count of the header line, the entities of
\* the "- id: state" lines, and the count of the closing line, if there is one.
EntityLimit == 50

Min(a, b) == IF a < b THEN a ELSE b

\* entity_id.startswith(domain), with no "." after the domain
startswith_domain(entity_id, domain) ==
    /\ Len(entity_id) >= Len(domain)
    /\ SubSeq(entity_id, 1, Len(domain)) = domain

\* s.get("entity_id", "").startswith(f"{domain_filter}."), line 189
startswith_domain_dot(entity_id, domain) ==
    /\ Len(entity_id) >= Len(domain) + 1
    /\ SubSeq(entity_id, 1, Len(domain) + 1) = domain \o <<".">>

\* call_tool, branch list_entities, lines 184-202, from the answer of
\* ha.get_states on
list_entities(states, domain_filter) ==
    LET kept == IF domain_filter.present /\ domain_filter.tokens # <<>>
                THEN SelectSeq(states, LAMBDA s :
                                 startswith_domain_dot(s.entity_id, domain_filter.tokens))
                ELSE states
    IN  [header |-> Len(kept),
         lines |-> SubSeq(kept, 1, Min(Len(kept), EntityLimit)),
         more |-> IF Len(kept) > EntityLimit THEN <<Len(kept) - EntityLimit>> ELSE <<>>]

\* The answers of GET /api/states considered: lists of n entities whose domains
\* follow a pattern; the state of each entity is its position in the list.
Lengths == {0, 1, 2, 3, 49, 50, 51, 52, 99, 100, 101, 102, 103}

Patterns == {"lights", "mixed", "alternate", "switches", "no ids"}

EntityId(pattern, i) ==
    CASE pattern = "lights" -> <<"light", ".", "lamp">>
      [] pattern = "mixed" ->
           IF i % 3 = 1 THEN <<"light", ".", "lamp">>
           ELSE IF i % 3 = 2 THEN <<"light", "s", ".", "lamp">>
           ELSE <<"switch", ".", "plug">>
      [] pattern = "alternate" ->
           IF i % 2 = 1 THEN <<"light", ".", "lamp">> ELSE <<"switch", ".", "plug">>
      [] pattern = "switches" -> <<"switch", ".", "plug">>
      [] OTHER -> IF i % 4 = 0 THEN <<>> ELSE <<"light", ".", "lamp">>

StatesLists ==
    {[i \in 1..n |-> [entity_id |-> EntityId(p, i), state |-> i]] :
        n \in Lengths, p \in Patterns}

Domains ==
    {[present |-> FALSE, tokens |-> <<>>], [present |-> TRUE, tokens |-> <<>>],
     [present |-> TRUE, tokens |-> <<"light">>], [present |-> TRUE, tokens |-> <<"light", "s">>],
     [present |-> TRUE, tokens |-> <<"switch">>], [present |-> TRUE, tokens |-> <<"sensor">>]}

NoHa == [states |-> <<>>, domain |-> [present |-> FALSE, tokens |-> <<>>], summary |-> <<>>]

EnvironUnused == environ = {}

QbitUnused == qbit = NoQbit

RconUnused == rcon = NoRcon

HaUnused == ha = NoHa

BackendsUnused == EnvironUnused /\ QbitUnused /\ RconUnused /\ HaUnused

\* ------------------------------------------------------------ state machine
NoCall ==
    [name |-> <<>>, arguments |-> Absent, outcome |-> "ok",
     handler |-> Outcome("none", <<>>, NoExc, <<>>, NoExc),
     result |-> [content |-> <<>>, isError |-> FALSE],
     count_before |-> 0]

\* The configurations a process can start with: arr_services holds, in the order
\* of the five if statements, the services whose URL and API key are set.
Init ==
    /\ BackendsUnused
    /\ server \in Servers
    /\ arr_services \in
         IF server = "media-management"
         THEN {SelectSeq(ServiceOrder, LAMBDA x : x \in S) :
                 S \in SUBSET {ServiceOrder[i] : i \in 1..Len(ServiceOrder)}}
         ELSE {<<>>}
    /\ minecraft_servers \in IF server = "gaming" THEN {{}, {"alpha"}} ELSE {{}}
    /\ session = "open"
    /\ pc = "reading"
    /\ last = NoCall
    /\ call_count = 0
    /\ listings = <<>>
    /\ called_between = FALSE
    /\ HttpUnused
    /\ UnifiUnused
    /\ StdioUnused
    /\ FixUnused

\* A tools/list request: the list_tools handler runs.
ListTools ==
    /\ session = "open" /\ pc = "reading"
    /\ Len(listings) < MaxListings
    /\ listings' = Append(listings, list_tools(server))
    /\ UNCHANGED <<server, arr_services, minecraft_servers, session, pc, last,
                   call_count, called_between>>
    /\ UNCHANGED other_than_tool

\* A tools/call request: the call_tool handler runs to its end.
CallTool ==
    /\ session = "open" /\ pc = "reading"
    /\ call_count < MaxBackendCalls
    /\ \E name \in Names(server), outcome \in Outcomes :
         \E arguments \in Arguments(server, name) :
            LET h == call_tool(server, name, arguments, outcome)
            IN  /\ last' = [name |-> name, arguments |-> arguments, outcome |-> outcome,
                            handler |-> h, result |-> call_tool_result(h),
                            count_before |-> call_count]
                /\ call_count' = call_count + Len(h.calls)
    /\ pc' = "writing"
    /\ UNCHANGED <<server, arr_services, minecraft_servers, session, listings,
                   called_between>>
    /\ UNCHANGED other_than_tool

\* The result is written to the stream; the session reads the next request.
WriteResult ==
    /\ pc = "writing"
    /\ pc' = "reading"
    /\ last' = NoCall
    /\ called_between' = (called_between \/ Len(listings) = 1)
    /\ UNCHANGED <<server, arr_services, minecraft_servers, session, call_count, listings>>
    /\ UNCHANGED other_than_tool

\* End of the input stream: app.run returns.
CloseStream ==
    /\ session = "open" /\ pc = "reading"
    /\ session' = "closed"
    /\ UNCHANGED <<server, arr_services, minecraft_servers, pc, last, call_count,
                   listings, called_between>>
    /\ UNCHANGED other_than_tool

Next == ListTools \/ CallTool \/ WriteResult \/ CloseStream

Spec == Init /\ [][Next]_vars


\* ------------------------------------------ single backend clients at work
\* A process whose tool handlers are not looked at.
ToolUnused ==
    /\ server = "network"
    /\ arr_services = <<>>
    /\ minecraft_servers = {}
    /\ session = "open"
    /\ pc = "reading"
    /\ last = NoCall
    /\ call_count = 0
    /\ listings = <<>>
    /\ called_between = FALSE

\* The media-management server, from the environment it is started with.
ArrInit ==
    /\ server = "media-management"
    /\ environ \in SUBSET ArrEnviron
    /\ arr_services = load_arr_services(environ)
    /\ minecraft_servers = {}
    /\ session = "open"
    /\ pc = "reading"
    /\ last = NoCall
    /\ call_count = 0
    /\ listings = <<>>
    /\ called_between = FALSE
    /\ HttpUnused /\ UnifiUnused /\ StdioUnused /\ FixUnused
    /\ QbitUnused /\ RconUnused /\ HaUnused

\* A tools/call request for a download queue, with no arguments, whose backend
\* answers.
CallGetQueue ==
    /\ session = "open" /\ pc = "reading"
    /\ call_count < MaxBackendCalls
    /\ \E i \in 1..Len(ServiceOrder) :
         LET name == QueueName(ServiceOrder[i])
             arguments == [present |-> TRUE, map |-> EmptyMap]
             h == call_tool(server, name, arguments, "ok")
         IN  /\ last' = [name |-> name, arguments |-> arguments, outcome |-> "ok",
                         handler |-> h, result |-> call_tool_result(h),
                         count_before |-> call_count]
             /\ call_count' = call_count + Len(h.calls)
    /\ pc' = "writing"
    /\ UNCHANGED <<server, arr_services, minecraft_servers, session, listings,
                   called_between>>
    /\ UNCHANGED other_than_tool

ArrNext == ListTools \/ CallGetQueue \/ WriteResult \/ CloseStream

ArrSpec == ArrInit /\ [][ArrNext]_vars

\* The downloads server: qbit = QBittorrentClient() has run.
QbitInit ==
    /\ server = "downloads"
    /\ arr_services = <<>>
    /\ minecraft_servers = {}
    /\ session = "open"
    /\ pc = "reading"
    /\ last = NoCall
    /\ call_count = 0
    /\ listings = <<>>
    /\ called_between = FALSE
    /\ qbit = NoQbit
    /\ HttpUnused /\ UnifiUnused /\ StdioUnused /\ FixUnused
    /\ EnvironUnused /\ RconUnused /\ HaUnused

\* A tools/call request to the downloads server.  A handler that reaches its
\* qbit method reads qbit.client there; a Client(...) that raises is a method
\* that raises.
QbitCallTool ==
    /\ session = "open" /\ pc = "reading"
    /\ qbit.calls < MaxQbitCalls
    /\ \E name \in Names(server), outcome \in Outcomes, constructs \in BOOLEAN :
         \E arguments \in Arguments(server, name) :
            LET uses == call_tool(server, name, arguments, "ok").calls # <<>>
                c == client(qbit, constructs)
                h == call_tool(server, name, arguments,
                               IF uses /\ c.raised THEN "raise" ELSE outcome)
            IN  /\ last' = [name |-> name, arguments |-> arguments, outcome |-> outcome,
                            handler |-> h, result |-> call_tool_result(h),
                            count_before |-> call_count]
                /\ qbit' = IF uses
                           THEN [c.q EXCEPT !.calls = @ + 1,
                                            !.used = IF c.raised THEN <<>> ELSE <<c.value>>]
                           ELSE [qbit EXCEPT !.used = <<>>]
    /\ pc' = "writing"
    /\ UNCHANGED <<server, arr_services, minecraft_servers, session, call_count,
                   listings, called_between>>
    /\ UNCHANGED <<other_than_backend, environ, rcon, ha>>

QbitNext == ListTools \/ QbitCallTool \/ WriteResult \/ CloseStream

QbitSpec == QbitInit /\ [][QbitNext]_vars

\* The connections after a handler that made the backend calls `made`: each is
\* one execute_command, counted from the connections open before the call.
rcon_after(made, connects, answers) ==
    IF made = <<>> THEN [NoRcon EXCEPT !.open = rcon.open]
    ELSE execute_command([NoRcon EXCEPT !.open = rcon.open],
                         /\ made[1].args["server_name"].type = "string"
                         /\ made[1].args["server_name"].repr \in minecraft_servers,
                         connects, answers).r

\* The gaming server: minecraft = MinecraftClient(MINECRAFT_SERVERS) has run.
RconInit ==
    /\ server = "gaming"
    /\ arr_services = <<>>
    /\ minecraft_servers \in {{}, {"alpha"}}
    /\ session = "open"
    /\ pc = "reading"
    /\ last = NoCall
    /\ call_count = 0
    /\ listings = <<>>
    /\ called_between = FALSE
    /\ rcon = NoRcon
    /\ HttpUnused /\ UnifiUnused /\ StdioUnused /\ FixUnused
    /\ EnvironUnused /\ QbitUnused /\ HaUnused

\* A tools/call request to the gaming server.  A handler that reaches its
\* minecraft method runs execute_command there, once.
RconCallTool ==
    /\ session = "open" /\ pc = "reading"
    /\ \E name \in Names(server), outcome \in Outcomes, connects \in BOOLEAN :
         \E arguments \in Arguments(server, name) :
            LET h == call_tool(server, name, arguments,
                               IF connects THEN outcome ELSE "raise")
            IN  /\ last' = [name |-> name, arguments |-> arguments, outcome |-> outcome,
                            handler |-> h, result |-> call_tool_result(h),
                            count_before |-> call_count]
                /\ rcon' = rcon_after(h.calls, connects,
                                      outcome \notin {"raise", "raise_empty"})
    /\ pc' = "writing"
    /\ UNCHANGED <<server, arr_services, minecraft_servers, session, call_count,
                   listings, called_between>>
    /\ UNCHANGED <<other_than_backend, environ, qbit, ha>>

RconNext == ListTools \/ RconCallTool \/ WriteResult \/ CloseStream

RconSpec == RconInit /\ [][RconNext]_vars

\* The homeautomation server receives a list_entities call: the backend's answer
\* and the domain argument are fixed, the handler has not run.
HaInit ==
    /\ ha \in {[states |-> st, domain |-> d, summary |-> <<>>] :
                 st \in StatesLists, d \in Domains}
    /\ ToolUnused /\ HttpUnused /\ UnifiUnused /\ StdioUnused /\ FixUnused
    /\ EnvironUnused /\ QbitUnused /\ RconUnused

\* The list_entities branch runs and returns its text.
ListEntities ==
    /\ ha.summary = <<>>
    /\ ha' = [ha EXCEPT !.summary = <<list_entities(ha.states, ha.domain)>>]
    /\ UNCHANGED <<tool_vars, other_than_backend, environ, qbit, rcon>>

HaNext == ListEntities

HaSpec == HaInit /\ [][HaNext]_vars

\* ------------------------------------------------- the ASGI application runs
\* uvicorn.run(create_app(), ...): the application is up, no request served yet.
HttpInit == ToolUnused /\ HttpUnused /\ UnifiUnused /\ StdioUnused /\ FixUnused /\ BackendsUnused

\* GET /health
HealthCheck ==
    /\ http_count < MaxRequests
    /\ \E sid \in SessionIds \cup {"none"} :
         LET request == Request("GET", "/health", sid)
         IN  /\ router(create_app, request).endpoint = "health_check"
             /\ http_last' = Exchange(request, health_check(request))
    /\ http_count' = http_count + 1
    /\ UNCHANGED <<streams, closed_streams, handler_runs>>
    /\ UNCHANGED other_than_http

\* GET /sse: handle_sse makes a transport, which opens the event stream under a
\* session id of its own, and app.run serves the stream.
ConnectSse ==
    /\ http_count < MaxRequests
    /\ LET request == Request("GET", "/sse", "none")
       IN  /\ router(create_app, request).endpoint = "handle_sse"
           /\ \E sid \in SessionIds \ (streams \cup closed_streams) :
                /\ streams' = streams \cup {sid}
                /\ http_last' = Exchange(request, Response(200, [stream |-> sid]))
    /\ http_count' = http_count + 1
    /\ UNCHANGED <<closed_streams, handler_runs>>
    /\ UNCHANGED other_than_http

\* The client of an event stream disconnects: app.run and handle_sse return.
Disconnect ==
    /\ \E sid \in streams :
         /\ streams' = streams \ {sid}
         /\ closed_streams' = closed_streams \cup {sid}
    /\ UNCHANGED <<http_last, http_count, handler_runs>>
    /\ UNCHANGED other_than_http

\* POST /messages?session_id=...: no route has this path, so the router answers.
PostMessage ==
    /\ http_count < MaxRequests
    /\ \E sid \in SessionIds :
         LET request == Request("POST", "/messages", sid)
             routed == router(create_app, request)
         IN  /\ routed.endpoint = "none"
             /\ http_last' = Exchange(request, routed.response)
    /\ http_count' = http_count + 1
    /\ UNCHANGED <<streams, closed_streams, handler_runs>>
    /\ UNCHANGED other_than_http

\* Any other request the router turns away: a POST to a GET route, an unknown path.
NotServed ==
    /\ http_count < MaxRequests
    /\ \E method \in {"GET", "POST"}, path \in {"/health", "/sse", "/messages", "/"} :
         LET request == Request(method, path, "none")
             routed == router(create_app, request)
         IN  /\ ~(method = "POST" /\ path = "/messages")
             /\ routed.endpoint = "none"
             /\ http_last' = Exchange(request, routed.response)
    /\ http_count' = http_count + 1
    /\ UNCHANGED <<streams, closed_streams, handler_runs>>
    /\ UNCHANGED other_than_http

HttpNext == HealthCheck \/ ConnectSse \/ Disconnect \/ PostMessage \/ NotServed

HttpSpec == HttpInit /\ [][HttpNext]_vars

\* ---------------------------------------- tool calls on the shared UnifiClient
\* All coroutines run on one event loop: a coroutine runs alone from one await
\* that suspends it to the next, so each action below is the code between two
\* requests to the controller.
UnifiInit == ToolUnused /\ HttpUnused /\ UnifiUnused /\ StdioUnused /\ FixUnused /\ BackendsUnused

\* call_tool is entered for a session: it opens its httpx client, reads site and
\* its arguments, enters the UnifiClient method, which enters login, whose POST
\* to /api/login suspends the coroutine.
StartCall(t) ==
    /\ tasks[t].state = "idle"
    /\ calls_started < MaxCalls
    /\ \E sid \in {"s1", "s2"}, c \in UnifiCalls :
         tasks' = [tasks EXCEPT ![t] =
                     [IdleTask EXCEPT !.state = "login", !.session = sid,
                                      !.call = calls_started + 1,
                                      !.name = c.name, !.arguments = c.arguments]]
    /\ calls_started' = calls_started + 1
    /\ UNCHANGED cookies
    /\ UNCHANGED other_than_unifi

\* The login POST comes back, good or failed: login returns, and the method goes
\* straight on to its API request, passing cookies=self.cookies.
LoginAnswers(t) ==
    /\ tasks[t].state = "login"
    /\ \E ok \in BOOLEAN :
         LET l == login(ok, tasks[t].call, tasks[t].session, cookies)
         IN  /\ cookies' = l.cookies
             /\ tasks' = [tasks EXCEPT ![t] =
                   [@ EXCEPT !.state = "api", !.login_ok = l.returned,
                             !.carried = l.cookies]]
    /\ UNCHANGED calls_started
    /\ UNCHANGED other_than_unifi

\* The API request comes back: the controller serves a request that carries
\* cookies it issued, or turns it down, and raise_for_status raises; call_tool
\* formats the answer or its except clause formats the exception.
ApiAnswers(t) ==
    /\ tasks[t].state = "api"
    /\ \E outcome \in {"ok", "raise"} :
         /\ outcome = "ok" => tasks[t].carried # NoCookies
         /\ tasks' = [tasks EXCEPT ![t] =
               [@ EXCEPT !.state = "done",
                         !.result = call_tool_result(
                             call_tool("network", tasks[t].name, tasks[t].arguments, outcome))]]
    /\ UNCHANGED <<cookies, calls_started>>
    /\ UNCHANGED other_than_unifi

\* The result of the call is sent; the coroutine is gone.
FinishCall(t) ==
    /\ tasks[t].state = "done"
    /\ tasks' = [tasks EXCEPT ![t] = IdleTask]
    /\ UNCHANGED <<cookies, calls_started>>
    /\ UNCHANGED other_than_unifi

UnifiNext ==
    \E t \in Tasks : StartCall(t) \/ LoginAnswers(t) \/ ApiAnswers(t) \/ FinishCall(t)

UnifiSpec == UnifiInit /\ [][UnifiNext]_vars

\* --------------------------------------- a process on the stdio transport runs
\* python server.py is started with some of its environment variables set; a
\* configured service is there for the servers whose tools need one.
StdioInit ==
    /\ BackendsUnused
    /\ server \in StdioServers
    /\ arr_services = IF server = "media-management" THEN <<"sonarr">> ELSE <<>>
    /\ minecraft_servers = IF server = "gaming" THEN {"alpha"} ELSE {}
    /\ session = "open" /\ pc = "reading" /\ last = NoCall /\ call_count = 0
    /\ listings = <<>> /\ called_between = FALSE
    /\ HttpUnused /\ UnifiUnused /\ FixUnused
    /\ proc = "loading"
    /\ exit_code = 0
    /\ config \in SUBSET required_env(server)
    /\ loop = 0
    /\ jobs = [j \in Tasks |-> NoJob]
    /\ arrivals = 0

\* The module-level code runs to its end, then asyncio.run(main()) enters
\* app.run; nothing checks what os.getenv returned.  An exception raised while
\* the module loads ends the process with a traceback and status 1.
Startup ==
    /\ proc = "loading"
    /\ \E raised \in {FALSE} \cup (IF startup_can_raise(server) THEN {TRUE} ELSE {}) :
         IF raised THEN proc' = "exited" /\ exit_code' = 1
         ELSE proc' = "serving" /\ exit_code' = exit_code
    /\ UNCHANGED <<config, loop, jobs, arrivals>>
    /\ UNCHANGED other_than_stdio

\* A tools/call request is written to the process's stdin; its backend call will
\* be answered, or never (hung).
Arrive(j) ==
    /\ proc = "serving"
    /\ jobs[j].state = "none"
    /\ arrivals < MaxArrivals
    /\ \E hung \in BOOLEAN : jobs' = [jobs EXCEPT ![j] = [NoJob EXCEPT !.state = "queued", !.hung = hung]]
    /\ arrivals' = arrivals + 1
    /\ UNCHANGED <<proc, exit_code, config, loop>>
    /\ UNCHANGED other_than_stdio

\* The event loop reads the request and runs call_tool up to its backend call:
\* an awaited call suspends the coroutine, a call without await keeps the
\* loop's thread until it returns.
Dispatch(j) ==
    /\ proc = "serving"
    /\ loop = 0
    /\ jobs[j].state = "queued"
    /\ IF blocking_backend(server)
       THEN jobs' = [jobs EXCEPT ![j].state = "blocking"] /\ loop' = j
       ELSE jobs' = [jobs EXCEPT ![j].state = "awaiting"] /\ loop' = loop
    /\ UNCHANGED <<proc, exit_code, config, arrivals>>
    /\ UNCHANGED other_than_stdio

\* The backend answers: call_tool formats the answer and returns.
BackendAnswers(j) ==
    /\ jobs[j].state \in {"awaiting", "blocking"}
    /\ ~jobs[j].hung
    /\ jobs[j].state = "awaiting" => loop = 0
    /\ LET c == BackendTool(server)
       IN  jobs' = [jobs EXCEPT ![j].state = "done",
                                ![j].result = call_tool_result(
                                    call_tool(server, c.name, c.arguments, "ok"))]
    /\ loop' = 0
    /\ UNCHANGED <<proc, exit_code, config, arrivals>>
    /\ UNCHANGED other_than_stdio

\* The backend never answers and the call gives up: after the timeout of the
\* httpx client, or when the library of a blocking client has a timeout of its
\* own (the source sets none); the exception reaches the except clause of
\* call_tool.
GiveUp(j) ==
    /\ jobs[j].state \in {"awaiting", "blocking"}
    /\ jobs[j].hung
    /\ jobs[j].state = "awaiting" => (loop = 0 /\ deadline(server) # <<>>)
    /\ \E outcome \in {"raise", "raise_empty"} :
         LET c == BackendTool(server)
         IN  jobs' = [jobs EXCEPT ![j].state = "done",
                                  ![j].result = call_tool_result(
                                      call_tool(server, c.name, c.arguments, outcome))]
    /\ loop' = 0
    /\ UNCHANGED <<proc, exit_code, config, arrivals>>
    /\ UNCHANGED other_than_stdio

\* The result is written to stdout.
WriteJob(j) ==
    /\ jobs[j].state = "done"
    /\ loop = 0
    /\ jobs' = [jobs EXCEPT ![j] = NoJob]
    /\ UNCHANGED <<proc, exit_code, config, loop, arrivals>>
    /\ UNCHANGED other_than_stdio

\* stdin reaches its end with no request in progress: app.run, main and
\* asyncio.run return and the interpreter exits.
CleanClose ==
    /\ proc = "serving"
    /\ loop = 0
    /\ \A j \in Tasks : jobs[j].state = "none"
    /\ proc' = "exited"
    /\ exit_code' = 0
    /\ UNCHANGED <<config, loop, jobs, arrivals>>
    /\ UNCHANGED other_than_stdio

StdioNext ==
    \/ Startup
    \/ CleanClose
    \/ \E j \in Tasks : Arrive(j) \/ Dispatch(j) \/ BackendAnswers(j) \/ GiveUp(j) \/ WriteJob(j)

StdioSpec == StdioInit /\ [][StdioNext]_vars

\* ------------------------------------------------------ fix_servers.py is run
\* The tree before the run: the repository's, but for one directory whose files
\* are any of those a directory can hold (an earlier run, a hand-made main, a
\* missing file).
FixInit ==
    /\ BackendsUnused
    /\ ToolUnused /\ HttpUnused /\ UnifiUnused /\ StdioUnused
    /\ \E d \in Servers, py \in ServerPys, reqs \in Requirements :
         files = [RepositoryTree EXCEPT ![d] = [server_py |-> py, requirements |-> reqs]]
    /\ cursor = 0
    /\ output = <<>>
    /\ failures = 0
    /\ done = FALSE

\* print("Fixing MCP servers to use HTTP/SSE transport...\n")
StartScript ==
    /\ cursor = 0
    /\ cursor' = 1
    /\ output' = Append(output, Line("Fixing MCP servers", ""))
    /\ UNCHANGED <<files, failures, done>>
    /\ UNCHANGED other_than_fix

\* One turn of a loop with no try statement: an exception of fix_server ends
\* the script.
FixNextServerUncaught ==
    /\ cursor \in 1..Len(SERVERS)
    /\ \E failure \in FailurePoints :
         LET server_name == SERVERS[cursor]
             r == fix_server(server_name, files[server_name], failure)
         IN  /\ r.raised => failures < MaxFailures
             /\ failure # "none" => r.raised
             /\ files' = [files EXCEPT ![server_name] = r.dir]
             /\ output' = output \o r.output
             /\ failures' = failures + (IF r.raised THEN 1 ELSE 0)
             /\ cursor' = IF r.raised THEN Len(SERVERS) + 2 ELSE cursor + 1
    /\ UNCHANGED done
    /\ UNCHANGED other_than_fix

\* One turn of the loop: try: fix_server(server) except Exception: print error
FixNextServer ==
    /\ cursor \in 1..Len(SERVERS)
    /\ \E failure \in FailurePoints :
         LET server_name == SERVERS[cursor]
             r == fix_server(server_name, files[server_name], failure)
         IN  /\ r.raised => failures < MaxFailures
             /\ failure # "none" => r.raised
             /\ files' = [files EXCEPT ![server_name] = r.dir]
             /\ output' = output \o r.output
                            \o (IF r.raised THEN <<Line("Error fixing", server_name)>> ELSE <<>>)
             /\ failures' = failures + (IF r.raised THEN 1 ELSE 0)
    /\ cursor' = cursor + 1
    /\ UNCHANGED done
    /\ UNCHANGED other_than_fix

\* print("\nDone! Rebuild containers with: docker-compose build")
FinishScript ==
    /\ cursor = Len(SERVERS) + 1
    /\ ~done
    /\ done' = TRUE
    /\ output' = Append(output, Line("Done", ""))
    /\ UNCHANGED <<files, cursor, failures>>
    /\ UNCHANGED other_than_fix

FixNext == StartScript \/ FixNextServer \/ FinishScript

FixSpec == FixInit /\ [][FixNext]_vars

\* The script is one sequential program: each statement ends, by returning or
\* by raising, and the next one runs.
FairFixSpec == FixSpec /\ WF_vars(FixNext)

\* ------------------------------------------------------------------ properties
\* A tools/call request has been handled and its result is about to be written.
Answering == pc = "writing"

ListedTools == {list_tools(server)[i] : i \in 1..Len(list_tools(server))}

IsListed(name) == \E t \in ListedTools : t.name = name

ToolNamed(name) == CHOOSE t \in ListedTools : t.name = name

PropsSet(tool) == {tool.props[i] : i \in 1..Len(tool.props)}

DeclaredKeys(tool) == {p.key : p \in PropsSet(tool)}

PropNamed(tool, key) == CHOOSE p \in PropsSet(tool) : p.key = key

LacksRequired(tool, arguments) ==
    arguments.present /\ \E k \in tool.required : k \notin DOMAIN arguments.map

\* The arguments without the properties the tool's schema does not declare.
Declared(tool, arguments) ==
    [present |-> arguments.present,
     map |-> [k \in DOMAIN arguments.map \cap DeclaredKeys(tool) |-> arguments.map[k]]]

\* The arguments satisfy the tool's inputSchema, undeclared properties aside.
ValidArguments(tool, arguments) ==
    /\ arguments.present
    /\ tool.required \subseteq DOMAIN arguments.map
    /\ \A k \in DOMAIN arguments.map \cap DeclaredKeys(tool) :
          Conforms(arguments.map[k], PropNamed(tool, k))

OneTextBlock(result) ==
    /\ Len(result.content) = 1
    /\ result.content[1].type = "text"
    /\ result.content[1].text # ""

NoDuplicateNames(tools) ==
    \A i, j \in 1..Len(tools) : Join(tools[i].name) = Join(tools[j].name) => i = j

\* C1: when the backend client raises during a tool call, the result has isError
\* true and one non-empty text block, and the session stays open.
C1_BackendFaultIsErrorResult ==
    (Answering /\ last.handler.caught.origin = "backend")
        => /\ last.result.isError = TRUE
           /\ OneTextBlock(last.result)
           /\ session = "open"

\* C2: a call naming a tool that list_tools does not list gives a result with
\* isError true whose text says the tool is unknown, and the session stays open.
C2_UnknownToolIsErrorResult ==
    (Answering /\ ~IsListed(last.name))
        => /\ last.result.isError = TRUE
           /\ Len(last.result.content) = 1
           /\ last.result.content[1].text = "Unknown tool: " \o Join(last.name)
           /\ session = "open"

\* C3: a call of a listed tool whose arguments omit a required property gives a
\* result with isError true, and no backend client method is invoked.
C3_MissingRequiredIsErrorResult ==
    (Answering /\ IsListed(last.name) /\ LacksRequired(ToolNamed(last.name), last.arguments))
        => /\ last.result.isError = TRUE
           /\ last.handler.calls = <<>>
           /\ call_count = last.count_before

\* The half of C3 about the backend alone: with a required property missing no
\* backend client method is invoked.
MissingRequiredMakesNoBackendCall ==
    (Answering /\ IsListed(last.name) /\ LacksRequired(ToolNamed(last.name), last.arguments))
        => /\ last.handler.calls = <<>>
           /\ call_count = last.count_before

\* C4: call_tool never raises to its caller, whatever the tool name (listed or
\* not) and whatever the arguments (missing keys and an absent mapping included).
C4_CallToolNeverRaises ==
    Answering => last.handler.kind # "raise"

\* An absent argument mapping made a statement of the handler raise, and the
\* except clause caught it.
C4_Witness ==
    /\ Answering
    /\ ~last.arguments.present
    /\ last.handler.caught.origin = "handler"
    /\ last.handler.kind = "return"

\* C5: list_tools returns every tool once, and every call of it returns the same
\* list (names, schemas and order), also after tool calls were served in between.
C5_ListToolsStable ==
    \A i \in 1..Len(listings) :
        /\ NoDuplicateNames(listings[i])
        /\ listings[i] = listings[1]
        /\ listings[i] = list_tools(server)

\* Two listings of a server with more than one tool, with a tool call between them.
C5_Witness ==
    /\ Len(listings) = 2
    /\ called_between
    /\ Len(listings[2]) > 1

\* C6: an argument whose type differs from the declared one, or that is not in
\* the declared enum, never reaches a backend client method.
C6_BackendNeverGetsMalformedValue ==
    (Answering /\ IsListed(last.name))
        => \A i \in 1..Len(last.handler.calls) :
             \A k \in DOMAIN last.handler.calls[i].args :
                (k \in DeclaredKeys(ToolNamed(last.name)) /\ k \in DOMAIN last.arguments.map)
                    => Conforms(last.handler.calls[i].args[k],
                                PropNamed(ToolNamed(last.name), k))

\* C7: a property with a declared default reaches the backend client as that
\* default when the arguments omit it and as the supplied value otherwise.
C7_DeclaredDefaultsPassed ==
    (Answering /\ IsListed(last.name))
        => \A p \in PropsSet(ToolNamed(last.name)) :
             p.default # <<>> =>
               \A i \in 1..Len(last.handler.calls) :
                  /\ p.key \in DOMAIN last.handler.calls[i].args
                  /\ last.handler.calls[i].args[p.key] =
                        IF p.key \in DOMAIN last.arguments.map
                        THEN last.arguments.map[p.key]
                        ELSE p.default[1]

\* get_logs of the containers server was called without tail and the backend got 100.
C7_Witness ==
    /\ Answering
    /\ server = "containers"
    /\ last.name = <<"get_logs">>
    /\ "tail" \notin DOMAIN last.arguments.map
    /\ Len(last.handler.calls) = 1
    /\ last.handler.calls[1].args["tail"] = IntV("100")

\* C8: properties the schema does not declare change nothing: the call does what
\* it does with the declared properties alone, backend invocations included.
C8_ExtraPropertiesIgnored ==
    (/\ Answering
     /\ IsListed(last.name)
     /\ ExtraKey \in DOMAIN last.arguments.map
     /\ ValidArguments(ToolNamed(last.name), last.arguments))
        => LET h == call_tool(server, last.name,
                              Declared(ToolNamed(last.name), last.arguments), last.outcome)
           IN  /\ last.handler = h
               /\ last.result = call_tool_result(h)

\* A valid call carrying an undeclared property reached the backend and succeeded.
C8_Witness ==
    /\ Answering
    /\ IsListed(last.name)
    /\ ExtraKey \in DOMAIN last.arguments.map
    /\ ValidArguments(ToolNamed(last.name), last.arguments)
    /\ last.handler.calls # <<>>
    /\ last.handler.caught = NoExc
    /\ last.result.isError = FALSE

PostedMessage == http_last.request.method = "POST" /\ http_last.request.path = "/messages"

\* C11: a POST to /messages for a session whose /sse stream is open is accepted
\* and answered at once with an acknowledgement (a success status), the tool
\* result following on the event stream.
C11_PostIsAcknowledged ==
    (PostedMessage /\ http_last.open)
        => http_last.response.status \in 200..299

\* C12: a POST for a session id whose event stream is not open (never opened or
\* disconnected) fails with SessionNotFoundError and runs no tool handler.
C12_PostWithoutStreamIsSessionNotFound ==
    (PostedMessage /\ ~http_last.open)
        => /\ http_last.response.body = [error |-> "SessionNotFoundError"]
           /\ handler_runs = 0

\* The half of C12 about the handlers alone: no HTTP request starts a tool handler.
NoHandlerRunsOverHttp == handler_runs = 0

\* C13: GET /health answers 200 with the body {"status": "healthy"} whatever
\* sessions exist, and serving it changes no session and starts no handler.
C13_HealthIsFixedAndStateless ==
    [][(/\ http_count' = http_count + 1
        /\ http_last'.request.method = "GET"
        /\ http_last'.request.path = "/health")
          => /\ http_last'.response = Response(200, [status |-> "healthy"])
             /\ UNCHANGED <<streams, closed_streams, handler_runs, tool_vars>>]_vars

\* /health was served for a disconnected session while another stream was open.
C13_Witness ==
    /\ http_last.request.method = "GET"
    /\ http_last.request.path = "/health"
    /\ http_last.request.session_id \in closed_streams
    /\ streams # {}

\* The API request of task t has been made.
Requested(t) == tasks[t].state \in {"api", "done"} /\ tasks[t].carried # NoCookies

\* C14: sessions share no mutable state: what is written while serving a tool
\* call of one session is never read while serving a tool call of another.
C14_NoStateAcrossSessions ==
    \A t \in Tasks :
        Requested(t) => tasks[t].carried.session = tasks[t].session

\* C15: with two tool calls in flight, every API request carries the cookies
\* obtained by the login of its own call.
C15_RequestCarriesOwnCookies ==
    \A t \in Tasks :
        (/\ tasks[t].state = "api"
         /\ \E u \in Tasks \ {t} : tasks[u].state # "idle")
            => tasks[t].carried = Jar(tasks[t].call, tasks[t].session)

\* The part of C15 that is about interleaving alone: after a login that
\* succeeded, the API request carries that login's cookies, whatever other
\* calls are in flight.
OwnCookiesAfterGoodLogin ==
    \A t \in Tasks :
        (tasks[t].state = "api" /\ tasks[t].login_ok)
            => tasks[t].carried = Jar(tasks[t].call, tasks[t].session)

\* C16: a tool call whose login request failed ends with an error result, never
\* with a success result.
C16_LoginFailureIsErrorResult ==
    \A t \in Tasks :
        (tasks[t].state = "done" /\ ~tasks[t].login_ok)
            => tasks[t].result.isError = TRUE

\* A call whose login failed was served with the cookies of another call and
\* ended with the text of a success.
SuccessAfterFailedLogin ==
    \E t \in Tasks :
        /\ tasks[t].state = "done" /\ ~tasks[t].login_ok
        /\ tasks[t].carried.call # tasks[t].call
        /\ tasks[t].result.isError = FALSE
        /\ tasks[t].result.content[1].text = "Found <data>"

\* C17: a backend call that never answers makes the tool call end with a
\* DeadlineExceeded error result, in every server.
C17_HungBackendIsDeadlineError ==
    \A j \in Tasks :
        (jobs[j].state = "done" /\ jobs[j].hung)
            => /\ jobs[j].result.isError = TRUE
               /\ jobs[j].result.content = <<TextContent("DeadlineExceeded")>>

\* Every backend call that hangs is made under a deadline set by call_tool.
HungCallHasDeadline ==
    \A j \in Tasks :
        (jobs[j].state \in {"awaiting", "blocking"} /\ jobs[j].hung)
            => deadline(server) # <<>>

\* C18: while a tool call waits on a blocking backend call, a request that has
\* arrived meanwhile can be dispatched.
C18_BlockingCallDoesNotStall ==
    \A j, k \in Tasks :
        (jobs[j].state = "blocking" /\ jobs[k].state = "queued")
            => ENABLED Dispatch(k)

\* C19: a process started with required configuration missing never serves and
\* exits non-zero; a process that served exits 0 when its input closes.
C19_MissingConfigurationStopsStartup ==
    /\ config # required_env(server) => proc # "serving"
    /\ (config # required_env(server) /\ proc = "exited") => exit_code # 0
    /\ (config = required_env(server) /\ proc = "exited" /\ ~startup_can_raise(server))
          => exit_code = 0

\* The half of C19 about the exit status: a process that exits with a non-zero
\* status never served.
NonZeroExitOnlyFromStartup ==
    (proc = "exited" /\ exit_code # 0) => arrivals = 0

ImportsOrUsesStdio(text) ==
    \/ Contains(text, "from mcp.server.stdio import stdio_server")
    \/ Contains(text, "async with stdio_server():")

\* def create_app() holds Route("/health", ...) and Route("/sse", ...)
DefinesRoutes(text) == Contains(text, "def create_app():")

NoErrorReported == \A i \in 1..Len(output) : output[i].kind # "Error fixing"

\* C20: after a run of the script in which no server reported an error, no
\* server.py under mcp-servers imports or uses stdio_server and each defines the
\* /health and /sse routes.
C20_RunConvertsEveryServer ==
    (done /\ NoErrorReported)
        => \A d \in Servers :
              files[d].server_py.exists
                 => /\ ~ImportsOrUsesStdio(files[d].server_py.text)
                    /\ DefinesRoutes(files[d].server_py.text)

\* The part of C20 about the servers the script lists: after such a run every
\* listed server.py that had the main region of the repository's servers is
\* converted.
ListedServersConverted ==
    (done /\ NoErrorReported)
        => \A i \in 1..Len(SERVERS) :
              LET py == files[SERVERS[i]].server_py
              IN  (py.exists /\ ~Contains(py.text, "<other run>"))
                     => ~ImportsOrUsesStdio(py.text) /\ DefinesRoutes(py.text)

\* C21: in every server and configuration, a name that list_tools returns is
\* handled by a branch of call_tool; the call never answers 'Unknown tool: <name>'.
C21_ListedNameHasBranch ==
    (Answering /\ IsListed(last.name))
        => /\ branch_of(server, last.name).tag = "branch"
           /\ \A i \in 1..Len(last.result.content) :
                 last.result.content[i].text # "Unknown tool: " \o Join(last.name)

C21_Witness ==
    /\ Answering
    /\ server = "media-management"
    /\ last.name = QueueName("lidarr")
    /\ IsListed(last.name)
    /\ last.handler.calls # <<>>

\* C22: for every server, tool name and argument mapping, call_tool returns a
\* list holding at least one text block; it never returns an absent value or an
\* empty list.
C22_CallToolReturnsTextBlocks ==
    Answering
        => /\ last.handler.kind = "return"
           /\ Len(last.handler.content) >= 1
           /\ \A i \in 1..Len(last.handler.content) :
                 last.handler.content[i].type = "text"

Configured(service_name) ==
    <<service_name, "URL">> \in environ /\ <<service_name, "API_KEY">> \in environ

IfConfigured(service_name, names) == IF Configured(service_name) THEN names ELSE <<>>

ExpectedListing ==
    << <<"list_services">> >>
    \o IfConfigured("sonarr", << <<"sonarr_get_series">>, <<"sonarr_get_calendar">>, <<"sonarr_search">> >>)
    \o IfConfigured("radarr", << <<"radarr_get_movies">>, <<"radarr_get_calendar">>, <<"radarr_search">> >>)
    \o IfConfigured("sonarr", << <<"sonarr", "_get_queue">> >>)
    \o IfConfigured("radarr", << <<"radarr", "_get_queue">> >>)
    \o IfConfigured("lidarr", << <<"lidarr", "_get_queue">> >>)
    \o IfConfigured("prowlarr", << <<"prowlarr", "_get_queue">> >>)
    \o IfConfigured("readarr", << <<"readarr", "_get_queue">> >>)

NamesOf(tools) == [i \in 1..Len(tools) |-> tools[i].name]

\* C23: in the media-management server a service is configured exactly when its
\* URL and its API key are both non-empty; list_tools returns list_services, the
\* three sonarr tools iff sonarr is configured, the three radarr tools iff
\* radarr is configured, then one <service>_get_queue tool per configured
\* service in the order sonarr, radarr, lidarr, prowlarr, readarr; and the
\* configured services never change after startup.
C23_ConfiguredServicesAndListing ==
    /\ [](/\ \A i \in 1..Len(ServiceOrder) :
                InDict(ServiceOrder[i], arr_services) <=> Configured(ServiceOrder[i])
          /\ \A i \in 1..Len(listings) : NamesOf(listings[i]) = ExpectedListing)
    /\ [][arr_services' = arr_services]_vars

C23_Witness ==
    /\ Len(listings) = 2
    /\ called_between
    /\ arr_services = <<"sonarr", "lidarr">>
    /\ <<"radarr", "URL">> \in environ
    /\ <<"prowlarr", "API_KEY">> \in environ

\* C24: in the downloads server the torrent client is not made at startup nor by
\* list_tools; the first tool call that uses the client makes it; at most one
\* client is ever constructed successfully and every later tool call works with
\* that one; a construction that fails leaves the client unset, and the next
\* tool call that uses the client constructs again.
C24_ClientMadeOnceOnFirstUse ==
    /\ [](/\ qbit.calls = 0 => qbit.client = 0
          /\ qbit.constructed <= 1
          /\ (qbit.calls >= 1 /\ qbit.failed = 0) => qbit.client # 0)
    /\ [][/\ listings' # listings => qbit' = qbit
          /\ qbit.client # 0 => qbit'.client = qbit.client
          /\ (qbit'.calls > qbit.calls /\ qbit.client # 0) => qbit'.used = <<qbit.client>>
          /\ qbit'.failed > qbit.failed => qbit'.client = 0
          /\ (qbit'.calls > qbit.calls /\ qbit.client = 0)
                => \/ qbit'.failed = qbit.failed + 1
                   \/ qbit'.constructed = qbit.constructed + 1 /\ qbit'.client # 0
         ]_vars

C24_Witness ==
    /\ qbit.failed = 1
    /\ qbit.constructed = 1
    /\ qbit.calls = 3
    /\ qbit.used = <<qbit.client>>
    /\ Len(listings) >= 1

NamesServer == last.arguments.present /\ "server_name" \in DOMAIN last.arguments.map

NamesConfiguredServer ==
    /\ NamesServer
    /\ last.arguments.map["server_name"].type = "string"
    /\ last.arguments.map["server_name"].repr \in minecraft_servers

EndsWithErrorText ==
    /\ last.handler.caught # NoExc
    /\ Len(last.result.content) = 1
    /\ last.result.content[1].text = "Error: " \o last.handler.caught.text

KeptPositions ==
    IF ha.domain.present /\ ha.domain.tokens # <<>>
    THEN {i \in 1..Len(ha.states) :
            LET id == ha.states[i].entity_id
                d == ha.domain.tokens
            IN  /\ Len(id) > Len(d)
                /\ \A k \in 1..Len(d) : id[k] = d[k]
                /\ id[Len(d) + 1] = "."}
    ELSE 1..Len(ha.states)

\* The j-th of the kept positions, in the order of the list.
KeptPosition(j) ==
    CHOOSE i \in KeptPositions : Cardinality({k \in KeptPositions : k <= i}) = j

\* C26: list_entities with a non-empty domain keeps exactly the entities whose
\* id starts with '<domain>.', and with no domain or an empty one keeps every
\* entity; its header gives the number n of kept entities, it lists the first
\* min(n, 50) of them in their original order, and it ends with the line
\* '... and k more entities' exactly when n > 50, with k = n - 50.
C26_ListEntitiesFiltersAndTruncates ==
    ha.summary # <<>>
        => LET out == ha.summary[1]
               n == Cardinality(KeptPositions)
           IN  /\ out.header = n
               /\ Len(out.lines) = (IF n < 50 THEN n ELSE 50)
               /\ \A j \in 1..Len(out.lines) : out.lines[j] = ha.states[KeptPosition(j)]
               /\ out.more = (IF n > 50 THEN <<n - 50>> ELSE <<>>)

C26_Witness ==
    /\ ha.summary # <<>>
    /\ ha.domain.present /\ ha.domain.tokens = <<"light">>
    /\ Len(ha.states) = 102
    /\ ha.summary[1].header = 51
    /\ Len(ha.summary[1].lines) = 50
    /\ ha.summary[1].more = <<1>>

\* fix_server has run on SERVERS[i] and the script reported no error for it.
FixedWithoutError(i) ==
    /\ i < cursor
    /\ \A k \in 1..Len(output) : output[k] # Line("Error fixing", SERVERS[i])

\* C27: fix_server is idempotent: a second run of fix_server on a directory
\* leaves server.py and requirements.txt exactly as the first run left them.
C27_FixServerIdempotent ==
    \A i \in 1..Len(SERVERS) :
        FixedWithoutError(i)
            => fix_server(SERVERS[i], files[SERVERS[i]], "none").dir = files[SERVERS[i]]

\* The half of C27 about requirements.txt: a second run leaves it as the first
\* run left it.
RequirementsFixedOnce ==
    \A i \in 1..Len(SERVERS) :
        FixedWithoutError(i)
            => fix_server(SERVERS[i], files[SERVERS[i]], "none").dir.requirements
                  = files[SERVERS[i]].requirements

ImportLines ==
    {"from mcp.server import Server", "from mcp.server.stdio import stdio_server",
     "from mcp.types import Tool, TextContent", "from fastapi import FastAPI"}
    \cup {NEW_IMPORTS[i] : i \in 1..Len(NEW_IMPORTS)}

WithoutImportLines(text) == SelectSeq(text, LAMBDA piece : piece \notin ImportLines)

\* Where a main region of the text begins: an 'async def main():' with an
\* 'asyncio.run(main())' after it.
MainStarts(text) ==
    {i \in 1..Len(text) : /\ text[i] = "async def main():"
                          /\ \E j \in (i + 1)..Len(text) : text[j] = "asyncio.run(main())"}

\* The text after differs from the text before only in import lines and in that
\* the main region, if there is one, has become the template.
OnlyImportsAndMainChanged(before, after) ==
    IF MainStarts(before) = {}
    THEN WithoutImportLines(after) = WithoutImportLines(before)
    ELSE LET i == CHOOSE x \in MainStarts(before) : \A y \in MainStarts(before) : x <= y
             j == CHOOSE x \in (i + 1)..Len(before) :
                      /\ before[x] = "asyncio.run(main())"
                      /\ \A y \in (i + 1)..(x - 1) : before[y] # "asyncio.run(main())"
         IN  \E a \in 0..Len(after) :
                /\ a + Len(MAIN_TEMPLATE) <= Len(after)
                /\ SubSeq(after, a + 1, a + Len(MAIN_TEMPLATE)) = MAIN_TEMPLATE
                /\ WithoutImportLines(SubSeq(after, 1, a))
                      = WithoutImportLines(SubSeq(before, 1, i - 1))
                /\ SubSeq(after, a + Len(MAIN_TEMPLATE) + 1, Len(after))
                      = SubSeq(before, j + 1, Len(before))

\* C28: fix_server changes a server.py only in its import lines and in the
\* region from 'async def main():' through 'asyncio.run(main())', which becomes
\* the HTTP/SSE template; the client class, the tool list and the call_tool body
\* stay as they were, and a server.py with no such region keeps its main code.
C28_OnlyImportsAndMainChange ==
    [][\A d \in Servers :
          (\E k \in (Len(output) + 1)..Len(output') :
              output'[k] = Line("Updated server.py", d))
             => OnlyImportsAndMainChanged(files[d].server_py.text, files'[d].server_py.text)
      ]_vars

C28_Witness ==
    /\ cursor = 2
    /\ \E k \in 1..Len(output) : output[k] = Line("Updated server.py", SERVERS[1])
    /\ Contains(files[SERVERS[1]].server_py.text, "def create_app():")
    /\ ~Contains(files[SERVERS[1]].server_py.text, "async def main():")
    /\ Contains(files[SERVERS[1]].server_py.text, "<body>")

\* In this step fix_server went through the requirements.txt of directory d.
UpdatesRequirements(d) ==
    \E k \in (Len(output) + 1)..Len(output') :
        output'[k] = Line("Updated requirements.txt", d)

\* The lines of REQS_NEW for the packages the template's imports come from.
TransportRequirements ==
    {REQS_NEW[i] : i \in 1..Len(REQS_NEW)}
        \cap {"fastapi>=0.115.0", "uvicorn>=0.32.0", "starlette>=0.27.0"}

\* The lines of `before`, empty lines at both ends aside, stand in `after` in
\* their order.
KeptInOrder(before, after) ==
    LET lines == strip(before)
    IN  \E f \in [1..Len(lines) -> 1..Len(after)] :
           /\ \A k \in 1..Len(lines) : after[f[k]] = lines[k]
           /\ \A k, l \in 1..Len(lines) : k < l => f[k] < f[l]

\* C29: once fix_server has rewritten a server, its requirements.txt lists the
\* packages the new server.py imports for the HTTP/SSE transport (the fastapi,
\* uvicorn and starlette lines of REQS_NEW), and every line it had before is
\* kept, in the original order.
C29_RequirementsListTransportPackages ==
    [][\A d \in Servers :
          (UpdatesRequirements(d) /\ DefinesRoutes(files'[d].server_py.text))
             => LET after == files'[d].requirements.text
                IN  /\ TransportRequirements \subseteq {after[k] : k \in 1..Len(after)}
                    /\ KeptInOrder(files[d].requirements.text, after)
      ]_vars

\* The half of C29 about the lines that were there: fix_server keeps them, in
\* their order.
PriorRequirementsKept ==
    [][\A d \in Servers :
          UpdatesRequirements(d)
             => KeptInOrder(files[d].requirements.text, files'[d].requirements.text)
      ]_vars

LinesOf(kind) == SelectSeq(output, LAMBDA line : line.kind = kind)

Printed(kind, d) == \E k \in 1..Len(output) : output[k] = Line(kind, d)

\* The servers attempted so far are the first ones of SERVERS, each once, in the
\* order of the list.
AttemptedOnceInOrder ==
    /\ Len(LinesOf("Fixing")) = (IF cursor = 0 THEN 0 ELSE cursor - 1)
    /\ \A i \in 1..Len(LinesOf("Fixing")) : LinesOf("Fixing")[i].server = SERVERS[i]

\* An error is printed once per failure, after the attempt of the server it
\* names and before the attempt of the next.
ErrorsNameTheFailingServer ==
    /\ Len(LinesOf("Error fixing")) = failures
    /\ \A k \in 1..Len(output) :
          output[k].kind = "Error fixing"
             => /\ \E a \in 1..(k - 1) :
                      /\ output[a] = Line("Fixing", output[k].server)
                      /\ \A b \in (a + 1)..(k - 1) : output[b].kind # "Fixing"
                /\ \A l \in 1..Len(output) :
                      (output[l] = output[k]) => l = k

\* A server for which no error was printed had its files gone through, also
\* when it comes after one that failed.
OthersStillFixed ==
    \A i \in 1..Len(SERVERS) :
        (i < cursor /\ ~Printed("Error fixing", SERVERS[i]))
           => /\ files[SERVERS[i]].server_py.exists => Printed("Updated server.py", SERVERS[i])
              /\ files[SERVERS[i]].requirements.exists
                    => Printed("Updated requirements.txt", SERVERS[i])

\* A missing server.py is passed over: nothing is printed about it, and an error
\* for that server can only come from its requirements.txt.
MissingServerPySkipped ==
    \A i \in 1..Len(SERVERS) :
        (i < cursor /\ ~files[SERVERS[i]].server_py.exists)
           => /\ ~Printed("Updated server.py", SERVERS[i])
              /\ Printed("Error fixing", SERVERS[i]) => files[SERVERS[i]].requirements.exists

\* C30: in a run of the script a failure while fixing one server is reported for
\* that server only; every server of SERVERS is attempted exactly once in list
\* order, the servers after a failing one are still fixed, a server whose
\* server.py is missing is skipped without error, and the script always reaches
\* its final 'Done' message.
C30_FailureIsolatedRunCompletes ==
    /\ [](/\ AttemptedOnceInOrder
          /\ ErrorsNameTheFailingServer
          /\ OthersStillFixed
          /\ MissingServerPySkipped
          /\ done => cursor = Len(SERVERS) + 1 /\ output[Len(output)] = Line("Done", ""))
    /\ <>done

C30_Witness ==
    /\ done
    /\ failures = 1
    /\ \E i \in 1..Len(SERVERS) :
          /\ Printed("Error fixing", SERVERS[i])
          /\ \E j \in (i + 1)..Len(SERVERS) :
                /\ Printed("Updated server.py", SERVERS[j])
                /\ ~Printed("Error fixing", SERVERS[j])
    /\ \E k \in 1..Len(SERVERS) :
          /\ ~files[SERVERS[k]].server_py.exists
          /\ ~Printed("Error fixing", SERVERS[k])


=============================================================================
